---- MODULE Spec2Model ----
(***************************************************************************)
(* Model of the identity-resolution core of chsp_transaction_mapper:       *)
(*   core/client_map_loader.py   ClientMapLoader (registry, indices,       *)
(*                               address search, address normalisation)    *)
(*   core/transaction_matcher.py TransactionMatcher (strategy cascade)     *)
(*   models/match_result.py      MatchResult.confidence_level              *)
(*   models/reconciliation_report.py  ReconciliationReport                 *)
(*   scripts/run_stripe_post_review_reconciliation.py  the post-review pass*)
(*   importers/shiftcare_importer.py  the page loop and its progress file  *)
(*                                                                         *)
(* Python str values are sequences of characters, each a one-character     *)
(* string (a whitespace character outside ASCII is written as its code     *)
(* point, "U+00A0").  Scores are fixed-point integers in units of 1/10000, *)
(* which holds the percent scores of fuzzywuzzy (k/100.0) exactly.  The    *)
(* quotient name_threshold / 100.0 of the matcher is kept in units of      *)
(* 1/1000000,                                                              *)
(* and a float sum that misses its decimal value by one unit in the last   *)
(* place carries that as a separate "excess" of -1, 0 or 1.                *)
(***************************************************************************)
EXTENDS Integers, Sequences, FiniteSets, TLC

(***************************************************************************)
(* Bounds of the model.                                                    *)
(***************************************************************************)
MaxAddrLen == 4      \* longest of the inputs of _normalize_address taken over all strings
MaxBatch == 2        \* longest batch given to bulk_match_transactions
MaxRows == 3         \* longest sheet given to the post-review run
MaxResults == 3      \* longest list of results given to from_match_results
MaxPages == 3        \* pages of invoices the ShiftCare API can serve

(***************************************************************************)
(* Python values.                                                          *)
(***************************************************************************)
\* None where a str is expected: a one-element sequence that is no string
\* of the model (no character is spelled "None").
None == <<"None">>

\* bool(x) of an Optional[str]: None and "" are falsy.
Truthy(s) == s # None /\ s # <<>>

LowerLetters == <<"a","b","c","d","e","f","g","h","i","j","k","l","m",
                  "n","o","p","q","r","s","t","u","v","w","x","y","z">>
UpperLetters == <<"A","B","C","D","E","F","G","H","I","J","K","L","M",
                  "N","O","P","Q","R","S","T","U","V","W","X","Y","Z">>
Digits == {"0","1","2","3","4","5","6","7","8","9"}
\* the characters str.strip() drops and the regex class \s matches
\* (str.isspace).  Of ASCII: space, \t, \n, \r, \f, and, written as the
\* characters they are, \v (0x0b) and the separators 0x1c, 0x1d, 0x1e, 0x1f.
\* The others: a character outside ASCII is written as its code point.
Whitespace ==
    {" ", "\t", "\n", "\r", "\f", "", "", "", "", "",
     "U+0085", "U+00A0", "U+1680", "U+2000", "U+2001", "U+2002",
     "U+2003", "U+2004", "U+2005", "U+2006", "U+2007", "U+2008",
     "U+2009", "U+200A", "U+2028", "U+2029", "U+202F", "U+205F",
     "U+3000"}

Range(f) == {f[i] : i \in DOMAIN f}

\* str.lower() on one character.
LowerChar(c) ==
    IF \E i \in 1..26 : UpperLetters[i] = c
    THEN LowerLetters[CHOOSE i \in 1..26 : UpperLetters[i] = c]
    ELSE c

\* str.lower()
Lower(s) == [i \in DOMAIN s |-> LowerChar(s[i])]

\* str.strip(): drop leading and trailing whitespace.
Strip(s) ==
    LET keep == {i \in DOMAIN s : s[i] \notin Whitespace}
    IN  IF keep = {} THEN <<>>
        ELSE LET lo == CHOOSE i \in keep : \A j \in keep : i <= j
                 hi == CHOOSE i \in keep : \A j \in keep : j <= i
             IN  SubSeq(s, lo, hi)

\* the regex class \w
IsWordChar(c) == c \in Range(LowerLetters) \cup Range(UpperLetters) \cup Digits \cup {"_"}

\* needle in haystack (str.__contains__): the empty string is in every string.
Contains(hay, needle) ==
    \E i \in 1..(Len(hay) + 1) :
        /\ i + Len(needle) - 1 <= Len(hay)
        /\ SubSeq(hay, i, i + Len(needle) - 1) = needle

\* " ".join(parts)
RECURSIVE JoinSpace(_)
JoinSpace(parts) ==
    IF parts = <<>> THEN <<>>
    ELSE IF Len(parts) = 1 THEN parts[1]
    ELSE parts[1] \o <<" ">> \o JoinSpace(Tail(parts))

(***************************************************************************)
(* ClientMapLoader._normalize_address                                      *)
(***************************************************************************)
\* re.sub(r'[,.\-_/]', ' ', s)
Punctuation == {",", ".", "-", "_", "/"}
SubPunctuation(s) == [i \in DOMAIN s |-> IF s[i] \in Punctuation THEN " " ELSE s[i]]

\* does r'\bW\b' match at position i of s
WordMatchesAt(s, w, i) ==
    /\ i + Len(w) - 1 <= Len(s)
    /\ SubSeq(s, i, i + Len(w) - 1) = w
    /\ (i = 1 \/ ~IsWordChar(s[i - 1]))
    /\ (i + Len(w) > Len(s) \/ ~IsWordChar(s[i + Len(w)]))

\* "".join(pieces[lo..hi]), by halves
RECURSIVE Concat(_, _, _)
Concat(pieces, lo, hi) ==
    IF lo > hi THEN <<>>
    ELSE IF lo = hi THEN pieces[lo]
    ELSE Concat(pieces, lo, (lo + hi) \div 2) \o Concat(pieces, (lo + hi) \div 2 + 1, hi)

\* the positions of s where r'\bW\b' matches; the matches of a word between
\* word boundaries do not overlap, so the scan of re.sub finds all of them
WordMatches(s, w) == {i \in DOMAIN s : WordMatchesAt(s, w, i)}

\* what re.sub puts for each character of s: the replacement at the start of
\* a match, nothing for the rest of the match, the character elsewhere
ReSubPieces(s, w, r, matches) ==
    [i \in DOMAIN s |->
        IF i \in matches THEN r
        ELSE IF \E m \in matches : m < i /\ i < m + Len(w) THEN <<>>
        ELSE <<s[i]>>]

\* re.sub(r'\bW\b', R, s)
ReSubWord(s, w, r) == Concat(ReSubPieces(s, w, r, WordMatches(s, w)), 1, Len(s))

\* the street_types dict, in insertion order: <<pattern word, replacement>>
street_types ==
    << <<  <<"s","t">>,                              <<"s","t","r","e","e","t">> >>,
       <<  <<"r","d">>,                              <<"r","o","a","d">> >>,
       <<  <<"a","v","e">>,                          <<"a","v","e","n","u","e">> >>,
       <<  <<"a","v","e","n","u","e">>,              <<"a","v","e","n","u","e">> >>,
       <<  <<"d","r">>,                              <<"d","r","i","v","e">> >>,
       <<  <<"p","l">>,                              <<"p","l","a","c","e">> >>,
       <<  <<"c","r">>,                              <<"c","r","e","s","c","e","n","t">> >>,
       <<  <<"c","r","e","s","c","e","n","t">>,      <<"c","r","e","s","c","e","n","t">> >>,
       <<  <<"c","t">>,                              <<"c","o","u","r","t">> >>,
       <<  <<"c","o","u","r","t">>,                  <<"c","o","u","r","t">> >>,
       <<  <<"l","n">>,                              <<"l","a","n","e">> >>,
       <<  <<"l","a","n","e">>,                      <<"l","a","n","e">> >>,
       <<  <<"w","y">>,                              <<"w","a","y">> >>,
       <<  <<"w","a","y">>,                          <<"w","a","y">> >> >>

\* the unit_indicators dict, in insertion order
unit_indicators ==
    << <<  <<"u","n","i","t">>,                          <<"u">> >>,
       <<  <<"a","p","t">>,                              <<"u">> >>,
       <<  <<"a","p","a","r","t","m","e","n","t">>,      <<"u">> >>,
       <<  <<"f","l","a","t">>,                          <<"u">> >> >>

\* for pattern, repl in table.items(): s = re.sub(pattern, repl, s)
RECURSIVE ApplyTable(_, _)
ApplyTable(s, table) ==
    IF table = <<>> THEN s
    ELSE ApplyTable(ReSubWord(s, table[1][1], table[1][2]), Tail(table))

\* what re.sub(r'\s+', ' ', s) puts for each character of s: one space for
\* the first character of a run of whitespace, nothing for the rest of it
WhitespacePieces(s) ==
    [i \in DOMAIN s |->
        IF s[i] \notin Whitespace THEN <<s[i]>>
        ELSE IF i > 1 /\ s[i - 1] \in Whitespace THEN <<>>
        ELSE <<" ">>]

\* re.sub(r'\s+', ' ', s)
CollapseWhitespace(s) == Concat(WhitespacePieces(s), 1, Len(s))

\* A variant that collapses whitespace before it replaces punctuation.
normalize_address_collapse_first(address) ==
    IF ~Truthy(address) THEN <<>>
    ELSE LET lowered  == Strip(Lower(address))
             collapsed == Strip(CollapseWhitespace(lowered))
             streets  == ApplyTable(collapsed, street_types)
             units    == ApplyTable(streets, unit_indicators)
         IN  SubPunctuation(units)

normalize_address(address) ==
    IF ~Truthy(address) THEN <<>>
    ELSE LET lowered  == Strip(Lower(address))
             nopunct  == SubPunctuation(lowered)
             streets  == ApplyTable(nopunct, street_types)
             units    == ApplyTable(streets, unit_indicators)
         IN  Strip(CollapseWhitespace(units))

(***************************************************************************)
(* fuzzywuzzy.fuzz, as imported by both core files.  The library is not    *)
(* part of the repository; ratio and partial_ratio are modelled after its  *)
(* pure-Python implementation on difflib.SequenceMatcher (no junk; the     *)
(* autojunk heuristic only applies to strings of 200 or more characters).  *)
(* Both return an integer percentage 0..100.                               *)
(***************************************************************************)
Min(a, b) == IF a <= b THEN a ELSE b
Max(a, b) == IF a >= b THEN a ELSE b

\* length of the common run of a[i..ahi] and b[j..bhi]
RECURSIVE CommonRun(_, _, _, _, _, _)
CommonRun(a, b, i, j, ahi, bhi) ==
    IF i > ahi \/ j > bhi \/ a[i] # b[j] THEN 0
    ELSE 1 + CommonRun(a, b, i + 1, j + 1, ahi, bhi)

\* the first of the longest runs: the longest, then the one starting earliest
\* in a, then earliest in b (runs are triples <<i, j, k>>)
FirstLongest(runs) ==
    CHOOSE t \in runs : \A u \in runs :
        \/ t[3] > u[3]
        \/ t[3] = u[3] /\ (t[1] < u[1] \/ (t[1] = u[1] /\ t[2] <= u[2]))

Block(t) == [i |-> t[1], j |-> t[2], k |-> t[3]]

\* SequenceMatcher.find_longest_match on a[alo..ahi], b[blo..bhi] (inclusive,
\* 1-based): the longest block, the one starting earliest in a, then in b;
\* <<alo, blo, 0>> when nothing matches.
find_longest_match(a, b, alo, ahi, blo, bhi) ==
    Block(FirstLongest({<<alo, blo, 0>>} \cup
                       {<<i, j, CommonRun(a, b, i, j, ahi, bhi)>> :
                            i \in alo..ahi, j \in blo..bhi}))

\* SequenceMatcher.get_matching_blocks, without the closing sentinel: the
\* longest block m, and the blocks to its left and to its right
RECURSIVE matching_blocks(_, _, _, _, _, _)
BlocksAround(a, b, alo, ahi, blo, bhi, m) ==
    IF m.k = 0 THEN <<>>
    ELSE matching_blocks(a, b, alo, m.i - 1, blo, m.j - 1)
         \o <<m>>
         \o matching_blocks(a, b, m.i + m.k, ahi, m.j + m.k, bhi)

matching_blocks(a, b, alo, ahi, blo, bhi) ==
    BlocksAround(a, b, alo, ahi, blo, bhi, find_longest_match(a, b, alo, ahi, blo, bhi))

RECURSIVE SumSizes(_)
SumSizes(blocks) == IF blocks = <<>> THEN 0 ELSE blocks[1].k + SumSizes(Tail(blocks))

\* round(x) of Python: halves go to the even neighbour
RoundHalfEven(q, r, den) ==
    IF 2 * r < den THEN q
    ELSE IF 2 * r > den THEN q + 1
    ELSE IF q % 2 = 0 THEN q ELSE q + 1

\* The ratio is a binary64 float and 100 * ratio is rounded once more before
\* round() sees it.  When 100 * num / den is exactly q + 1/2 the product is
\* q + 1/2 again for every q in 0..99 but two: 100 * 0.545 is
\* 54.50000000000001 (up to 55, not to the even 54) and 100 * 0.575 is
\* 57.49999999999999 (down to 57, not to the even 58).  Away from a half the
\* float error is far smaller than the distance to the half.
\* int(round(100 * ratio)) for ratio = num / den computed in floats
RoundPercent(num, den) ==
    IF 2 * ((100 * num) % den) = den /\ (100 * num) \div den = 54
    THEN 55
    ELSE IF 2 * ((100 * num) % den) = den /\ (100 * num) \div den = 57
    THEN 57
    ELSE RoundHalfEven((100 * num) \div den, (100 * num) % den, den)

\* SequenceMatcher(None, a, b).ratio() as the pair <<2 * matches, length>>
sm_ratio(a, b) ==
    <<2 * SumSizes(matching_blocks(a, b, 1, Len(a), 1, Len(b))), Len(a) + Len(b)>>

\* fuzz.ratio(s1, s2): 0 for None, 100 for equal strings, 0 for an empty one
PercentOf(r) == RoundPercent(r[1], r[2])

fuzz_ratio(s1, s2) ==
    IF s1 = None \/ s2 = None THEN 0
    ELSE IF s1 = s2 THEN 100
    ELSE IF Len(s1) = 0 \/ Len(s2) = 0 THEN 0
    ELSE PercentOf(sm_ratio(s1, s2))

\* the window of the longer string that a matching block lines up with the
\* shorter one: longer[long_start : long_start + len(shorter)]
Window(shorter, longer, blk) ==
    SubSeq(longer, Max(blk.j - blk.i, 0) + 1,
           Min(Max(blk.j - blk.i, 0) + Len(shorter), Len(longer)))

\* max(scores) of ratios <<num, den>>, 100 at once for a ratio above .995
BestPercent(ratios) ==
    IF \E r \in ratios : 1000 * r[1] > 995 * r[2] THEN 100
    ELSE PercentOf(CHOOSE r \in ratios : \A q \in ratios : q[1] * r[2] <= r[1] * q[2])

\* the ratios of the shorter string against the windows of its matching
\* blocks and of the closing sentinel block (len(shorter), len(longer), 0)
WindowRatios(shorter, longer, blocks) ==
    { sm_ratio(shorter, Window(shorter, longer, blocks[n])) : n \in DOMAIN blocks }

PartialRatio(shorter, longer) ==
    BestPercent(WindowRatios(shorter, longer,
        matching_blocks(shorter, longer, 1, Len(shorter), 1, Len(longer))
        \o << [i |-> Len(shorter) + 1, j |-> Len(longer) + 1, k |-> 0] >>))

\* fuzz.partial_ratio(s1, s2)
fuzz_partial_ratio(s1, s2) ==
    IF s1 = None \/ s2 = None THEN 0
    ELSE IF s1 = s2 THEN 100
    ELSE IF Len(s1) = 0 \/ Len(s2) = 0 THEN 0
    ELSE IF Len(s1) <= Len(s2) THEN PartialRatio(s1, s2)
    ELSE PartialRatio(s2, s1)

(***************************************************************************)
(* Python dicts are functions; Optional values are wrapped in a record     *)
(* [is_none, v].  Client ids are strings such as "CL1"; NoClient is the    *)
(* Optional[str] None of a lookup that found nothing.                      *)
(***************************************************************************)
NoClient == "None"
EmptyDict == [k \in {} |-> NoClient]
DictGet(d, k, default) == IF k \in DOMAIN d THEN d[k] ELSE default
DictSet(d, k, v) == [x \in (DOMAIN d) \cup {k} |-> IF x = k THEN v ELSE d[x]]
NoneValue == [is_none |-> TRUE, v |-> <<>>]
Some(x) == [is_none |-> FALSE, v |-> x]

(***************************************************************************)
(* ClientMapLoader                                                         *)
(*                                                                         *)
(* A registry file is [shape, clients]: shape "flat" is the JSON object    *)
(* {id: record}, "envelope" is {"metadata":..,"clients":[record,..]} and   *)
(* "invalid" is a top-level JSON value that is no object.  The loader      *)
(* state is the record of the four private fields.                         *)
(***************************************************************************)
\* ClientMapLoader.__init__
NewLoader ==
    [client_cache   |-> NoneValue,
     email_index    |-> NoneValue,
     name_index     |-> NoneValue,
     platform_index |-> NoneValue]

\* f"{given_name} {family_name}".strip()
FullName(client) == Strip(client.given_name \o <<" ">> \o client.family_name)

\* d[client['caura_id']] = client: a key that is there keeps its position
PutClient(front, c) ==
    IF \E n \in DOMAIN front : front[n].caura_id = c.caura_id
    THEN [n \in DOMAIN front |-> IF front[n].caura_id = c.caura_id THEN c ELSE front[n]]
    ELSE Append(front, c)

\* {client['caura_id']: client for client in clients_list}: a repeated key
\* keeps its first position and takes the last value.
RECURSIVE DictOfClients(_)
DictOfClients(clients) ==
    IF clients = <<>> THEN <<>>
    ELSE PutClient(DictOfClients(SubSeq(clients, 1, Len(clients) - 1)),
                   clients[Len(clients)])

\* the email loop of _build_indices for one client
RECURSIVE IndexEmails(_, _, _)
IndexEmails(idx, emails, caura_id) ==
    IF emails = <<>> THEN idx
    ELSE IndexEmails(IF Truthy(emails[1])
                     THEN DictSet(idx, Lower(emails[1]), caura_id)
                     ELSE idx,
                     Tail(emails), caura_id)

\* the name block of _build_indices for one client
IndexName(idx, client) ==
    LET full_name == FullName(client)
        name_key == Lower(full_name)
    IN  IF full_name = <<>> THEN idx
        ELSE DictSet(idx, name_key, Append(DictGet(idx, name_key, <<>>), client.caura_id))

\* the platform loop of _build_indices for one client
RECURSIVE IndexPlatforms(_, _, _)
IndexPlatforms(idx, platform_ids, caura_id) ==
    IF platform_ids = <<>> THEN idx
    ELSE LET info == platform_ids[1]
             sub0 == DictGet(idx, info.platform, EmptyDict)
             sub1 == IF Truthy(info.client_id)
                     THEN DictSet(sub0, info.client_id, caura_id) ELSE sub0
             sub2 == IF Truthy(info.display_name)
                     THEN DictSet(sub1, Lower(info.display_name), caura_id) ELSE sub1
         IN  IndexPlatforms(DictSet(idx, info.platform, sub2), Tail(platform_ids), caura_id)

\* the loop of _build_indices over the clients that are left: [L |-> the
\* loader when the loop ends, exc |-> the exception that ended it, "" for
\* none].  "emails": null makes `for email in emails` raise TypeError, with
\* the indices holding what the clients before have put there.
RECURSIVE BuildFrom(_, _)
BuildFrom(L, clients) ==
    IF clients = <<>> THEN [L |-> L, exc |-> ""]
    ELSE LET c == clients[1]
         IN  IF c.emails = None THEN [L |-> L, exc |-> "TypeError"]
             ELSE BuildFrom(
                 [L EXCEPT
                    !.email_index = Some(IndexEmails(L.email_index.v, c.emails, c.caura_id)),
                    !.name_index = Some(IndexName(L.name_index.v, c)),
                    !.platform_index =
                        Some(IndexPlatforms(L.platform_index.v, c.platform_identifiers,
                                            c.caura_id))],
                 Tail(clients))

\* ClientMapLoader._build_indices: nothing is built for an empty registry
build_indices(L) ==
    IF L.client_cache.v = <<>> THEN [L |-> L, exc |-> ""]
    ELSE BuildFrom([L EXCEPT !.email_index = Some(EmptyDict),
                             !.name_index = Some(EmptyDict),
                             !.platform_index = Some(EmptyDict)],
                   L.client_cache.v)

\* isinstance(data, dict) and 'clients' in data, for a flat mapping: one of
\* its ids is "clients".  data['clients'] is then that record, and the
\* comprehension over its keys raises TypeError before the cache is assigned.
HasClientsKey(file) ==
    file.shape = "flat" /\ \E n \in DOMAIN file.clients : file.clients[n].caura_id = "clients"

\* A loader that reads the file on every call.
load_client_map_always_reads(L, file) ==
    IF file.shape = "envelope"
    THEN build_indices([L EXCEPT !.client_cache = Some(DictOfClients(file.clients))])
    ELSE IF HasClientsKey(file) THEN [L |-> L, exc |-> "TypeError"]
    ELSE IF file.shape = "flat"
         THEN build_indices([L EXCEPT !.client_cache = Some(file.clients)])
    ELSE [L |-> L, exc |-> "ValueError"]

\* ClientMapLoader.load_client_map: [L |-> the loader afterwards, exc |-> the
\* exception raised, "" for none].  The cache is assigned before the indices
\* are built.
load_client_map(L, file) ==
    IF ~L.client_cache.is_none THEN [L |-> L, exc |-> ""]
    ELSE IF file.shape = "envelope"
         THEN build_indices([L EXCEPT !.client_cache = Some(DictOfClients(file.clients))])
    ELSE IF HasClientsKey(file) THEN [L |-> L, exc |-> "TypeError"]
    ELSE IF file.shape = "flat"
         THEN build_indices([L EXCEPT !.client_cache = Some(file.clients)])
    ELSE [L |-> L, exc |-> "ValueError"]

AttributeError == "AttributeError"

\* how a method of the loader ends: the loader afterwards, the exception it
\* raised ("" for none) and the value it returned
Outcome(L, exc, v) == [L |-> L, exc |-> exc, v |-> v]

\* return self._email_index.get(email.lower()), after load_client_map has
\* ended as ld: its exception goes on to the caller, and None.get raises
\* AttributeError while the index is unset
EmailIndexGet(ld, email) ==
    IF ld.exc # "" THEN Outcome(ld.L, ld.exc, NoClient)
    ELSE IF ld.L.email_index.is_none THEN Outcome(ld.L, AttributeError, NoClient)
    ELSE Outcome(ld.L, "", DictGet(ld.L.email_index.v, Lower(email), NoClient))

\* ClientMapLoader.find_client_by_email on the loader L, the document at
\* registry_path being file
find_client_by_email(L, file, email) == EmailIndexGet(load_client_map(L, file), email)

\* platform_data.get(identifier) or platform_data.get(identifier.lower()),
\* where `or` takes the second lookup whenever the first is None or the id ""
PlatformDataGet(platform_data, identifier) ==
    IF DictGet(platform_data, identifier, NoClient) \notin {NoClient, ""}
    THEN DictGet(platform_data, identifier, NoClient)
    ELSE DictGet(platform_data, Lower(identifier), NoClient)

\* A lookup that enters the platform it is asked for in the index:
\* platform_data = self._platform_index.setdefault(platform, {}).
PlatformIndexGet_setdefault(ld, platform, identifier) ==
    IF ld.exc # "" THEN Outcome(ld.L, ld.exc, NoClient)
    ELSE IF ld.L.platform_index.is_none THEN Outcome(ld.L, AttributeError, NoClient)
    ELSE Outcome([ld.L EXCEPT !.platform_index =
                      Some(DictSet(@.v, platform, DictGet(@.v, platform, EmptyDict)))],
                 "",
                 PlatformDataGet(DictGet(ld.L.platform_index.v, platform, EmptyDict),
                                 identifier))

\* platform_data = self._platform_index.get(platform, {}) and the return of
\* find_client_by_platform_id, after load_client_map has ended as ld
PlatformIndexGet(ld, platform, identifier) ==
    IF ld.exc # "" THEN Outcome(ld.L, ld.exc, NoClient)
    ELSE IF ld.L.platform_index.is_none THEN Outcome(ld.L, AttributeError, NoClient)
    ELSE Outcome(ld.L, "",
                 PlatformDataGet(DictGet(ld.L.platform_index.v, platform, EmptyDict),
                                 identifier))

\* ClientMapLoader.find_client_by_platform_id
find_client_by_platform_id(L, file, platform, identifier) ==
    PlatformIndexGet(load_client_map(L, file), platform, identifier)

\* return self._name_index.get(name.lower(), []), after load_client_map has
\* ended as ld: the ids listed under the name, [] when there are none
NameIndexGet(ld, name) ==
    IF ld.exc # "" THEN Outcome(ld.L, ld.exc, <<>>)
    ELSE IF ld.L.name_index.is_none THEN Outcome(ld.L, AttributeError, <<>>)
    ELSE Outcome(ld.L, "", DictGet(ld.L.name_index.v, Lower(name), <<>>))

\* ClientMapLoader.find_clients_by_name
find_clients_by_name(L, file, name) == NameIndexGet(load_client_map(L, file), name)

\* self._client_cache.get(caura_id), for the cache as a list of clients
CacheGet(clients, caura_id) ==
    IF \E n \in DOMAIN clients : clients[n].caura_id = caura_id
    THEN Some(clients[CHOOSE n \in DOMAIN clients : clients[n].caura_id = caura_id])
    ELSE NoneValue

\* return self._client_cache.get(caura_id), after load_client_map has ended
\* as ld (it ends without an exception only with the cache assigned)
ClientCacheGet(ld, caura_id) ==
    IF ld.exc # "" THEN Outcome(ld.L, ld.exc, NoneValue)
    ELSE Outcome(ld.L, "", CacheGet(ld.L.client_cache.v, caura_id))

\* ClientMapLoader.get_client
get_client(L, file, caura_id) == ClientCacheGet(load_client_map(L, file), caura_id)

\* the platform of every entry of every client, in the order _build_indices
\* meets them: the keys of the platform index stand in the order of their
\* first place here
RECURSIVE PlatformsInOrder(_)
PlatformsInOrder(clients) ==
    IF clients = <<>> THEN <<>>
    ELSE [k \in DOMAIN clients[1].platform_identifiers |->
              clients[1].platform_identifiers[k].platform]
         \o PlatformsInOrder(Tail(clients))

\* the places, in the order of the keys of the platform index, of the
\* platforms whose identifiers hold the address as it is
PlatformHits(L, order, address) ==
    {n \in DOMAIN order :
        /\ order[n] \in DOMAIN L.platform_index.v
        /\ address \in DOMAIN L.platform_index.v[order[n]]}

\* for platform, identifiers in self._platform_index.items():
\*     if address in identifiers: return self.get_client(identifiers[address])
\* return None
PlatformItemsGet(L, file, order, hits, address) ==
    IF L.platform_index.is_none THEN Outcome(L, AttributeError, NoneValue)
    ELSE IF hits # {}
    THEN get_client(L, file,
                    L.platform_index.v[order[CHOOSE n \in hits : \A m \in hits : n <= m]][address])
    ELSE Outcome(L, "", NoneValue)

\* get_client_by_address after its find_client_by_email has ended as found:
\* the client of the email index, else the client of the first platform
\* whose identifiers hold the address
ClientOfAddress(found, file, address) ==
    IF found.exc # "" THEN Outcome(found.L, found.exc, NoneValue)
    ELSE IF found.v \notin {NoClient, ""} THEN get_client(found.L, file, found.v)
    ELSE PlatformItemsGet(found.L, file,
                          PlatformsInOrder(found.L.client_cache.v),
                          IF found.L.platform_index.is_none THEN {}
                          ELSE PlatformHits(found.L, PlatformsInOrder(found.L.client_cache.v),
                                            address),
                          address)

\* get_client_by_address after its own load_client_map has ended as ld
AddressAfterLoad(ld, file, address) ==
    IF ld.exc # "" THEN Outcome(ld.L, ld.exc, NoneValue)
    ELSE ClientOfAddress(find_client_by_email(ld.L, file, address), file, address)

\* ClientMapLoader.get_client_by_address
get_client_by_address(L, file, address) ==
    AddressAfterLoad(load_client_map(L, file), file, address)

(***************************************************************************)
(* Scores: fixed point, 10000 = 1.0.  fuzz returns a percentage k and the  *)
(* code divides it by 100.0.                                               *)
(***************************************************************************)
Pct(k) == k * 100

SuburbContainmentScore == 8500
PostcodeScore == 9000
MinAddressChars == 5

\* one pass of the loop of find_client_by_street_address: the scores of one
\* client, [skip |-> TRUE] when the client has no address parts
ClientAddressScores(client, address_description, normalized_input) ==
    LET location == client.location
        part(x) == IF Truthy(x) THEN <<Strip(x)>> ELSE <<>>
        client_address_parts == part(location.address_1) \o part(location.address_2)
                                \o part(location.suburb) \o part(location.postcode)
        full_client_address == JoinSpace(client_address_parts)
        normalized_client_address == normalize_address(full_client_address)
        full == << [score |-> Pct(fuzz_partial_ratio(normalized_input,
                                                     normalized_client_address)),
                    strategy |-> "full_address"] >>
        street == IF Truthy(location.address_2)
                  THEN << [score |-> Pct(fuzz_partial_ratio(normalized_input,
                                             normalize_address(location.address_2))),
                           strategy |-> "street_only"] >>
                  ELSE <<>>
        suburb == IF Truthy(location.suburb)
                     /\ Contains(normalized_input, normalize_address(location.suburb))
                  THEN << [score |-> SuburbContainmentScore, strategy |-> "suburb_match"] >>
                  ELSE <<>>
        postcode == IF Truthy(location.postcode)
                       /\ Contains(address_description, Strip(location.postcode))
                    THEN << [score |-> PostcodeScore, strategy |-> "postcode_match"] >>
                    ELSE <<>>
    IN  IF client_address_parts = <<>>
        THEN [skip |-> TRUE, scores |-> <<>>, matched_address |-> <<>>]
        ELSE [skip |-> FALSE, scores |-> full \o street \o suburb \o postcode,
              matched_address |-> full_client_address]

\* max(scores) and the first strategy that has it
BestOfScores(scores) ==
    scores[CHOOSE n \in DOMAIN scores :
               /\ \A m \in DOMAIN scores : scores[m].score <= scores[n].score
               /\ \A m \in 1..(n - 1) : scores[m].score < scores[n].score]

NoAddressMatch ==
    [found |-> FALSE, client |-> NoClient, score |-> 0, details |-> EmptyDict]

\* A loop that stops at the first client that clears min_score.
AddressStep_first_clearing(best, c, cs, top, normalized_input, min_score) ==
    IF ~best.found /\ top.score > 0 /\ top.score >= min_score
    THEN [found |-> TRUE, client |-> c.caura_id, score |-> top.score,
          details |-> [matched_address |-> cs.matched_address,
                       match_strategy |-> top.strategy,
                       normalized_input |-> normalized_input,
                       all_scores |-> cs.scores]]
    ELSE best

\* the end of one pass of the loop: client c, with scores cs and best score
\* top, replaces the best match so far when it beats it and clears min_score
AddressStep(best, c, cs, top, normalized_input, min_score) ==
    IF top.score > best.score /\ top.score >= min_score
    THEN [found |-> TRUE, client |-> c.caura_id, score |-> top.score,
          details |-> [matched_address |-> cs.matched_address,
                       match_strategy |-> top.strategy,
                       normalized_input |-> normalized_input,
                       all_scores |-> cs.scores]]
    ELSE best

AddressPass(best, c, cs, normalized_input, min_score) ==
    IF cs.skip THEN best
    ELSE AddressStep(best, c, cs, BestOfScores(cs.scores), normalized_input, min_score)

\* the loop of find_client_by_street_address over the clients that are left
RECURSIVE AddressLoop(_, _, _, _, _)
AddressLoop(clients, address_description, normalized_input, min_score, best) ==
    IF clients = <<>> THEN best
    ELSE AddressLoop(Tail(clients), address_description, normalized_input, min_score,
                     AddressPass(best, clients[1],
                                 ClientAddressScores(clients[1], address_description,
                                                     normalized_input),
                                 normalized_input, min_score))

\* if best_match: return (best_match, best_score, best_details), else None:
\* a best match whose id is "" is not returned
ReturnedMatch(best) == IF best.found /\ best.client # "" THEN best ELSE NoAddressMatch

\* find_client_by_street_address after load_client_map has ended as ld
StreetAddressSearch(ld, address_description, min_score) ==
    IF ld.exc # "" THEN Outcome(ld.L, ld.exc, NoAddressMatch)
    ELSE IF ~Truthy(address_description)
            \/ Len(Strip(address_description)) < MinAddressChars
    THEN Outcome(ld.L, "", NoAddressMatch)
    ELSE Outcome(ld.L, "",
                 ReturnedMatch(AddressLoop(ld.L.client_cache.v, address_description,
                                           normalize_address(address_description), min_score,
                                           NoAddressMatch)))

\* ClientMapLoader.find_client_by_street_address
find_client_by_street_address(L, file, address_description, min_score) ==
    StreetAddressSearch(load_client_map(L, file), address_description, min_score)

(***************************************************************************)
(* TransactionMatcher                                                      *)
(*                                                                         *)
(* config is config["matching"]: the three recognised keys, each wrapped   *)
(* as an Optional ([is_none, v]); confidence_thresholds is a dict (a       *)
(* record over a subset of high, medium, low).                             *)
(***************************************************************************)
ExactScore == 10000
NoMatchScore == 0
DefaultHigh == 8500
DefaultMedium == 6000
DefaultLow == 4000
DefaultNameThreshold == 8500
DefaultMinScore == 8000
SuburbGate == 6000
SuburbSimilarity == 8000
SuburbBoost == 1500
LevelHigh == 8500
LevelMedium == 6000

\* TransactionMatcher.__init__: self.thresholds
Thresholds(config) ==
    IF config.confidence_thresholds.is_none
    THEN [high |-> DefaultHigh, medium |-> DefaultMedium, low |-> DefaultLow]
    ELSE config.confidence_thresholds.v

\* self.matching_config.get("fuzzy_matching", {}).get("name_threshold", 0.85) / 100.0,
\* in units of 1/1000000: the configured number in units of 1/10000 is the
\* quotient in units of 1/1000000, and nothing of it is dropped
NameThreshold(config) ==
    IF config.name_threshold.is_none THEN DefaultNameThreshold
    ELSE config.name_threshold.v

\* score >= name_threshold for a score in units of 1/10000 whose float is
\* excess units in the last place away from its decimal value
AtLeastThreshold(score, excess, name_threshold) ==
    score * 100 > name_threshold \/ (score * 100 = name_threshold /\ excess >= 0)

\* self.matching_config.get("address_matching", {}).get("min_score", 0.80)
AddressThreshold(config) ==
    IF config.min_score.is_none THEN DefaultMinScore ELSE config.min_score.v

\* MatchResult(...); exc is "" for a returned result
MatchResult(tx, client, score, method, details, matched, review) ==
    [exc |-> "",
     transaction_id |-> tx.transaction_id,
     client_caura_id |-> client,
     confidence_score |-> score,
     score_excess |-> 0,
     match_method |-> method,
     match_details |-> details,
     is_matched |-> matched,
     requires_review |-> review]

\* the call raised exc: there is no MatchResult
Raised(tx, exc) ==
    [exc |-> exc,
     transaction_id |-> tx.transaction_id,
     client_caura_id |-> NoClient,
     confidence_score |-> NoMatchScore,
     score_excess |-> 0,
     match_method |-> "",
     match_details |-> EmptyDict,
     is_matched |-> FALSE,
     requires_review |-> FALSE]

\* a strategy that found nothing returns None
NoResult == [exc |-> "None"]

\* A review flag computed from the default "high" instead of the configured one.
ReviewedResult_default_high(config, tx, client, score, method, details) ==
    IF "high" \notin DOMAIN Thresholds(config) THEN Raised(tx, "KeyError")
    ELSE MatchResult(tx, client, score, method, details, TRUE, score < DefaultHigh)

\* requires_review = score < self.thresholds["high"], then MatchResult(...);
\* the subscript raises KeyError when the configured dict has no "high"
ReviewedResult(config, tx, client, score, method, details) ==
    IF "high" \notin DOMAIN Thresholds(config) THEN Raised(tx, "KeyError")
    ELSE MatchResult(tx, client, score, method, details, TRUE,
                     score < Thresholds(config).high)

\* best_match = None, best_score = 0.0
NoBest == [best_match |-> <<>>, best_score |-> 0, best_excess |-> 0,
           best_client_id |-> NoClient, best_details |-> EmptyDict]

\* confidence_score = best_score as the float it is; a float just below
\* the decimal "high" is below it
WithExcess(config, result, excess) ==
    IF result.exc # "" THEN result
    ELSE [result EXCEPT !.score_excess = excess,
                        !.requires_review =
                            @ \/ (excess < 0 /\ result.confidence_score = Thresholds(config).high)]

\* the result of a name loop: a reviewed match when a client was kept
BestResult(config, tx, best, name_threshold, method) ==
    IF best.best_match # <<>>
       /\ AtLeastThreshold(best.best_score, best.best_excess, name_threshold)
    THEN WithExcess(config,
                    ReviewedResult(config, tx, best.best_client_id, best.best_score,
                                   method, best.best_details),
                    best.best_excess)
    ELSE NoResult

\* full_name in description -> 1.0, else fuzz.partial_ratio / 100.0
NameInDescriptionScore(full_name, description) ==
    IF Contains(description, full_name) THEN ExactScore
    ELSE Pct(fuzz_partial_ratio(full_name, description))

\* the end of one pass of the loop of _fuzzy_name_match
FuzzyNameStep(best, c, full_name, score, name_threshold) ==
    IF full_name # <<>> /\ score > best.best_score
       /\ AtLeastThreshold(score, 0, name_threshold)
    THEN [best_match |-> full_name, best_score |-> score, best_excess |-> 0,
          best_client_id |-> c.caura_id,
          best_details |-> [matched_name |-> full_name, fuzzy_score |-> score]]
    ELSE best

\* the loop of _fuzzy_name_match over the clients that are left
RECURSIVE FuzzyNameLoop(_, _, _, _)
FuzzyNameLoop(clients, description, name_threshold, best) ==
    IF clients = <<>> THEN best
    ELSE FuzzyNameLoop(Tail(clients), description, name_threshold,
             FuzzyNameStep(best, clients[1], Lower(FullName(clients[1])),
                           NameInDescriptionScore(Lower(FullName(clients[1])), description),
                           name_threshold))

\* how a strategy ends: the loader afterwards and what the strategy gave (a
\* MatchResult, NoResult for None, or the exception it raised)
Tried(L, result) == [L |-> L, result |-> result]

\* lines 91-132 of _fuzzy_name_match, after load_client_map has ended as ld
FuzzyNameAfterLoad(config, ld, tx) ==
    IF ld.exc # "" THEN Tried(ld.L, Raised(tx, ld.exc))
    ELSE Tried(ld.L,
               BestResult(config, tx,
                          FuzzyNameLoop(ld.L.client_cache.v, Lower(tx.description),
                                        NameThreshold(config), NoBest),
                          NameThreshold(config), "fuzzy_name"))

\* TransactionMatcher._fuzzy_name_match
fuzzy_name_match(config, L, file, tx) ==
    FuzzyNameAfterLoad(config, load_client_map(L, file), tx)

\* suburb_boost of one client, given its name_score
SuburbBoostOf(c, client_suburb, name_score) ==
    IF Truthy(client_suburb) /\ name_score >= SuburbGate
       /\ Truthy(c.location.suburb)
       /\ Pct(fuzz_ratio(Lower(client_suburb), Lower(c.location.suburb))) >= SuburbSimilarity
    THEN SuburbBoost ELSE 0

\* name_score + 0.15 is a float sum: for these percent scores k the sum
\* k/100.0 + 0.15 is one unit in the last place above, or below, the float
\* of (k + 15)/100, and equal to it for every other k in 0..84
\* (0.80 + 0.15 is 0.9500000000000001, 0.30 + 0.15 is 0.44999999999999996).
\* The units in the last place by which name_score + suburb_boost misses
\* its decimal value:
SumExcess(name_score, suburb_boost) ==
    IF suburb_boost # SuburbBoost \/ name_score % 100 # 0 THEN 0
    ELSE IF name_score \div 100 \in {14, 26, 27, 28, 54, 55, 56, 67, 68, 79, 80, 81} THEN 1
    ELSE IF name_score \div 100 \in {2, 8, 18, 19, 29, 30, 31, 41} THEN 0 - 1
    ELSE 0

\* A total that is not capped at 1.0.
TotalScore_uncapped(name_score, suburb_boost) ==
    [score |-> name_score + suburb_boost,
     excess |-> SumExcess(name_score, suburb_boost)]

\* total_score = min(1.0, name_score + suburb_boost)
TotalScore(name_score, suburb_boost) ==
    [score |-> Min(ExactScore, name_score + suburb_boost),
     excess |-> IF name_score + suburb_boost >= ExactScore THEN 0
                ELSE SumExcess(name_score, suburb_boost)]

\* the end of one pass of the loop of _paper_receipt_match
PaperReceiptStep(best, c, full_name, client_name, client_suburb, name_score, suburb_boost, total_score, name_threshold) ==
    IF full_name # <<>>
       /\ (total_score.score > best.best_score
           \/ (total_score.score = best.best_score
               /\ total_score.excess > best.best_excess))
       /\ AtLeastThreshold(total_score.score, total_score.excess, name_threshold)
    THEN [best_match |-> full_name, best_score |-> total_score.score,
          best_excess |-> total_score.excess,
          best_client_id |-> c.caura_id,
          best_details |-> [matched_name |-> full_name,
                            input_name |-> client_name,
                            name_score |-> name_score,
                            suburb_boost |-> suburb_boost,
                            suburb_verified |-> suburb_boost > 0,
                            input_suburb |-> client_suburb]]
    ELSE best

\* one pass with its name score and suburb boost: full_name and total_score
PaperReceiptPass(best, c, client_name, client_suburb, name_score, suburb_boost, name_threshold) ==
    PaperReceiptStep(best, c, FullName(c), client_name, client_suburb, name_score,
                     suburb_boost, TotalScore(name_score, suburb_boost), name_threshold)

\* one pass with its name score: the suburb boost of lines 164-172
PaperReceiptScored(best, c, client_name, client_suburb, name_score, name_threshold) ==
    PaperReceiptPass(best, c, client_name, client_suburb, name_score,
                     SuburbBoostOf(c, client_suburb, name_score), name_threshold)

\* the loop of _paper_receipt_match over the clients that are left
RECURSIVE PaperReceiptLoop(_, _, _, _, _)
PaperReceiptLoop(clients, client_name, client_suburb, name_threshold, best) ==
    IF clients = <<>> THEN best
    ELSE PaperReceiptLoop(Tail(clients), client_name, client_suburb, name_threshold,
             PaperReceiptScored(best, clients[1], client_name, client_suburb,
                 Pct(fuzz_ratio(Lower(client_name), Lower(FullName(clients[1])))),
                 name_threshold))

\* lines 146-202 of _paper_receipt_match, after load_client_map has ended as ld
PaperReceiptAfterLoad(config, ld, tx) ==
    IF ld.exc # "" THEN Tried(ld.L, Raised(tx, ld.exc))
    ELSE Tried(ld.L,
               BestResult(config, tx,
                          PaperReceiptLoop(ld.L.client_cache.v, tx.client_name,
                                           tx.client_suburb, NameThreshold(config), NoBest),
                          NameThreshold(config), "paper_receipt_name_fuzzy"))

\* TransactionMatcher._paper_receipt_match: without a client_name it returns
\* before it calls the loader
paper_receipt_match(config, L, file, tx) ==
    IF ~Truthy(tx.client_name) THEN Tried(L, NoResult)
    ELSE PaperReceiptAfterLoad(config, load_client_map(L, file), tx)

\* if address_result: ... MatchResult(..., "address_match", ...), where
\* find_client_by_street_address has ended as found
AddressResult(config, tx, found) ==
    IF found.exc # "" THEN Tried(found.L, Raised(tx, found.exc))
    ELSE IF found.v.found
    THEN Tried(found.L,
               ReviewedResult(config, tx, found.v.client, found.v.score,
                              "address_match", found.v.details))
    ELSE Tried(found.L, NoResult)

\* TransactionMatcher._address_match
address_match(config, L, file, tx) ==
    AddressResult(config, tx,
                  find_client_by_street_address(L, file, tx.description,
                                                AddressThreshold(config)))

\* An exact strategy that returns its result without testing client_id.
ExactResult_unchecked(tx, found, method, details) ==
    IF found.exc # "" THEN Tried(found.L, Raised(tx, found.exc))
    ELSE Tried(found.L, MatchResult(tx, found.v, ExactScore, method, details, TRUE, FALSE))

\* if client_id: return MatchResult(..., 1.0, method, ...), where the lookup
\* has ended as found; the id "" is as false as None
ExactResult(tx, found, method, details) ==
    IF found.exc # "" THEN Tried(found.L, Raised(tx, found.exc))
    ELSE IF found.v \notin {NoClient, ""}
    THEN Tried(found.L, MatchResult(tx, found.v, ExactScore, method, details, TRUE, FALSE))
    ELSE Tried(found.L, NoResult)

\* strategy 1 of match_transaction
IdentifierStrategy(L, file, tx) ==
    IF ~Truthy(tx.client_identifier) THEN Tried(L, NoResult)
    ELSE ExactResult(tx,
                     find_client_by_platform_id(L, file, tx.platform, tx.client_identifier),
                     "exact_client_id", [matched_identifier |-> tx.client_identifier])

\* strategy 2 of match_transaction
EmailStrategy(L, file, tx) ==
    IF ~Truthy(tx.email) THEN Tried(L, NoResult)
    ELSE ExactResult(tx, find_client_by_email(L, file, tx.email),
                     "exact_email", [matched_email |-> tx.email])

\* A receipt strategy that runs for every platform.
PaperReceiptStrategy_any_platform(config, L, file, tx) ==
    paper_receipt_match(config, L, file, tx)

\* strategy 3 of match_transaction
PaperReceiptStrategy(config, L, file, tx) ==
    IF tx.platform = "paper_receipt" THEN paper_receipt_match(config, L, file, tx)
    ELSE Tried(L, NoResult)

\* the closing MatchResult of match_transaction
NoMatch(tx) == MatchResult(tx, NoClient, NoMatchScore, "no_match", EmptyDict, FALSE, TRUE)

\* if result: return result -- else what comes next
OrElse(result, next) == IF result # NoResult THEN result ELSE next

\* if result: return result -- else the next strategy, on the loader this
\* one has left
OrElseTry(tried, NextStrategy(_)) ==
    IF tried.result # NoResult THEN tried ELSE NextStrategy(tried.L)

\* A cascade that tries the fuzzy name before the exact email.
match_transaction_name_before_email(config, L, file, tx) ==
    OrElseTry(IdentifierStrategy(L, file, tx), LAMBDA L1 :
    OrElseTry(PaperReceiptStrategy(config, L1, file, tx), LAMBDA L2 :
    OrElseTry(fuzzy_name_match(config, L2, file, tx), LAMBDA L3 :
    OrElseTry(EmailStrategy(L3, file, tx), LAMBDA L4 :
    OrElseTry(address_match(config, L4, file, tx), LAMBDA L5 :
              Tried(L5, NoMatch(tx)))))))

\* TransactionMatcher.match_transaction on the loader L, the document at
\* registry_path being file: the loader afterwards and the result of the
\* first strategy that returns or raises
match_transaction(config, L, file, tx) ==
    OrElseTry(IdentifierStrategy(L, file, tx), LAMBDA L1 :
    OrElseTry(EmailStrategy(L1, file, tx), LAMBDA L2 :
    OrElseTry(PaperReceiptStrategy(config, L2, file, tx), LAMBDA L3 :
    OrElseTry(fuzzy_name_match(config, L3, file, tx), LAMBDA L4 :
    OrElseTry(address_match(config, L4, file, tx), LAMBDA L5 :
              Tried(L5, NoMatch(tx)))))))

\* MatchResult.confidence_level
confidence_level(result) ==
    IF result.confidence_score >= LevelHigh THEN "high"
    ELSE IF result.confidence_score >= LevelMedium THEN "medium"
    ELSE "low"

\* A comprehension that collects the results in reverse.
ConsResult_reversed(first, rest) ==
    IF first.result.exc # "" THEN [L |-> first.L, exc |-> first.result.exc, results |-> <<>>]
    ELSE IF rest.exc # "" THEN rest
    ELSE [L |-> rest.L, exc |-> "", results |-> rest.results \o <<first.result>>]

\* [f(tx) for tx in ...]: the result of the first transaction before the
\* results of the others; an exception ends the comprehension
ConsResult(first, rest) ==
    IF first.result.exc # "" THEN [L |-> first.L, exc |-> first.result.exc, results |-> <<>>]
    ELSE IF rest.exc # "" THEN rest
    ELSE [L |-> rest.L, exc |-> "", results |-> <<first.result>> \o rest.results]

RECURSIVE bulk_match_transactions(_, _, _, _)

\* the comprehension after its first match_transaction has ended as first:
\* the other transactions are matched on the loader the first has left
BulkAfterFirst(config, first, file, others) ==
    ConsResult(first, bulk_match_transactions(config, first.L, file, others))

\* TransactionMatcher.bulk_match_transactions: the loader afterwards and the
\* list of results, or the first exception a transaction raises (then no
\* list is returned)
bulk_match_transactions(config, L, file, transactions) ==
    IF transactions = <<>> THEN [L |-> L, exc |-> "", results |-> <<>>]
    ELSE BulkAfterFirst(config, match_transaction(config, L, file, transactions[1]), file,
                        Tail(transactions))

(***************************************************************************)
(* The post-review pass (scripts/run_stripe_post_review_reconciliation.py). *)
(*                                                                         *)
(* A row of the sheet is [id, customer_email, matched, pii]: matched is    *)
(* row.get('Matched') == 'Matched', and pii holds the extracted columns,   *)
(* None for an empty cell.  The state of main is the record                *)
(* [phase, rows, transactions, i, match_results, email_to_client_map].     *)
(***************************************************************************)
PhoneScore == 9500
PropagatedScore == 9000
ExtractedAddressMinScore == 7000
ExtractedNameThreshold == 7500
MinNameChars == 2

\* ''.join(filter(str.isdigit, s))
DigitsOnly(s) == SelectSeq(s, LAMBDA c : c \in Digits)

\* the first client of the registry, in its order, that is among hits
FirstHit(clients, hits) ==
    IF hits = {} THEN NoClient
    ELSE clients[CHOOSE n \in hits : \A m \in hits : n <= m].caura_id

\* the test of _find_client_by_acn for one client
HasAcn(c, acn) ==
    \E k \in DOMAIN c.platform_identifiers :
        LET platform_id == c.platform_identifiers[k]
        IN  /\ platform_id.platform = "aged_care"
            /\ "acn" \in DOMAIN platform_id
            /\ platform_id.acn = acn

\* the loop of _find_client_by_acn, after load_client_map has ended as ld
AcnAfterLoad(ld, acn) ==
    IF ld.exc # "" THEN Outcome(ld.L, ld.exc, NoClient)
    ELSE Outcome(ld.L, "",
                 FirstHit(ld.L.client_cache.v,
                          {n \in DOMAIN ld.L.client_cache.v :
                               HasAcn(ld.L.client_cache.v[n], acn)}))

\* PostReviewMatcher._find_client_by_acn
find_client_by_acn(L, file, acn) == AcnAfterLoad(load_client_map(L, file), acn)

\* the test of _find_client_by_phone for one client
HasPhone(c, clean_phone) ==
    /\ "contact_numbers" \in DOMAIN c
    /\ \E k \in DOMAIN c.contact_numbers : DigitsOnly(c.contact_numbers[k]) = clean_phone

\* the loop of _find_client_by_phone, after load_client_map has ended as ld
PhoneAfterLoad(ld, phone) ==
    IF ld.exc # "" THEN Outcome(ld.L, ld.exc, NoClient)
    ELSE Outcome(ld.L, "",
                 FirstHit(ld.L.client_cache.v,
                          {n \in DOMAIN ld.L.client_cache.v :
                               HasPhone(ld.L.client_cache.v[n], DigitsOnly(phone))}))

\* PostReviewMatcher._find_client_by_phone
find_client_by_phone(L, file, phone) == PhoneAfterLoad(load_client_map(L, file), phone)

\* if client_id: return MatchResult(..., score, method, ...), where the
\* lookup has ended as found; the id "" is as false as None
PiiExactResult(tx, found, score, method, details) ==
    IF found.exc # "" THEN Tried(found.L, Raised(tx, found.exc))
    ELSE IF found.v \notin {NoClient, ""}
    THEN Tried(found.L, MatchResult(tx, found.v, score, method, details, TRUE, FALSE))
    ELSE Tried(found.L, NoResult)

\* if result: ... MatchResult(..., "extracted_address_fuzzy", ...), where
\* find_client_by_street_address has ended as found
ExtractedAddressResult(config, tx, found, address) ==
    IF found.exc # "" THEN Tried(found.L, Raised(tx, found.exc))
    ELSE IF found.v.found
    THEN Tried(found.L,
               ReviewedResult(config, tx, found.v.client, found.v.score,
                              "extracted_address_fuzzy",
                              DictSet(found.v.details, "extracted_address", address)))
    ELSE Tried(found.L, NoResult)

\* PostReviewMatcher._fuzzy_address_match
fuzzy_address_match(config, L, file, tx, address) ==
    IF ~Truthy(address) \/ Len(Strip(address)) < MinAddressChars THEN Tried(L, NoResult)
    ELSE ExtractedAddressResult(config, tx,
                                find_client_by_street_address(L, file, address,
                                                              ExtractedAddressMinScore),
                                address)

\* the end of one pass of the loop of PostReviewMatcher._fuzzy_name_match
ExtractedNameStep(best, c, name, full_name, score) ==
    IF full_name # <<>> /\ score > best.best_score /\ score >= ExtractedNameThreshold
    THEN [best_match |-> full_name, best_score |-> score, best_excess |-> 0,
          best_client_id |-> c.caura_id,
          best_details |-> [matched_name |-> full_name, extracted_name |-> name,
                            fuzzy_score |-> score]]
    ELSE best

\* the loop of PostReviewMatcher._fuzzy_name_match over the clients that are left
RECURSIVE ExtractedNameLoop(_, _, _)
ExtractedNameLoop(clients, name, best) ==
    IF clients = <<>> THEN best
    ELSE ExtractedNameLoop(Tail(clients), name,
             ExtractedNameStep(best, clients[1], name, FullName(clients[1]),
                               Pct(fuzz_ratio(Lower(name), Lower(FullName(clients[1]))))))

\* lines 176-220 of PostReviewMatcher._fuzzy_name_match, after
\* load_client_map has ended as ld
ExtractedNameAfterLoad(config, ld, tx, name) ==
    IF ld.exc # "" THEN Tried(ld.L, Raised(tx, ld.exc))
    ELSE Tried(ld.L,
               BestResult(config, tx, ExtractedNameLoop(ld.L.client_cache.v, name, NoBest),
                          ExtractedNameThreshold * 100, "extracted_name_fuzzy"))

\* PostReviewMatcher._fuzzy_name_match
extracted_name_match(config, L, file, tx, name) ==
    IF ~Truthy(name) \/ Len(Strip(name)) < MinNameChars THEN Tried(L, NoResult)
    ELSE ExtractedNameAfterLoad(config, load_client_map(L, file), tx, name)

\* strategies 1, 2 and 3 of match_by_extracted_pii
ExtractedEmail(L, file, tx, pii) ==
    IF ~Truthy(pii.Email) THEN Tried(L, NoResult)
    ELSE PiiExactResult(tx, find_client_by_email(L, file, pii.Email), ExactScore,
                        "extracted_email", [matched_email |-> pii.Email])

ExtractedAcn(L, file, tx, pii) ==
    IF ~Truthy(pii.ACN) THEN Tried(L, NoResult)
    ELSE PiiExactResult(tx, find_client_by_acn(L, file, pii.ACN), ExactScore,
                        "extracted_acn", [matched_acn |-> pii.ACN])

ExtractedPhone(L, file, tx, pii) ==
    IF ~Truthy(pii.Phone) THEN Tried(L, NoResult)
    ELSE PiiExactResult(tx, find_client_by_phone(L, file, pii.Phone), PhoneScore,
                        "extracted_phone", [matched_phone |-> pii.Phone])

\* strategies 4 and 5 of match_by_extracted_pii
ExtractedAddress(config, L, file, tx, pii) ==
    IF ~Truthy(pii.Address) THEN Tried(L, NoResult)
    ELSE fuzzy_address_match(config, L, file, tx, pii.Address)

ExtractedName(config, L, file, tx, pii) ==
    IF ~Truthy(pii.Name) THEN Tried(L, NoResult)
    ELSE extracted_name_match(config, L, file, tx, pii.Name)

\* the closing MatchResult of match_by_extracted_pii
NoMatchPostReview(tx) ==
    MatchResult(tx, NoClient, NoMatchScore, "no_match_post_review", EmptyDict, FALSE, TRUE)

\* A cascade that tries the phone before the email.
match_by_extracted_pii_phone_first(config, L, file, tx, pii) ==
    OrElseTry(ExtractedPhone(L, file, tx, pii), LAMBDA L1 :
    OrElseTry(ExtractedEmail(L1, file, tx, pii), LAMBDA L2 :
    OrElseTry(ExtractedAcn(L2, file, tx, pii), LAMBDA L3 :
    OrElseTry(ExtractedAddress(config, L3, file, tx, pii), LAMBDA L4 :
    OrElseTry(ExtractedName(config, L4, file, tx, pii), LAMBDA L5 :
              Tried(L5, NoMatchPostReview(tx)))))))

\* PostReviewMatcher.match_by_extracted_pii on the loader L: the loader
\* afterwards and the result of the first strategy that returns or raises
match_by_extracted_pii(config, L, file, tx, pii) ==
    OrElseTry(ExtractedEmail(L, file, tx, pii), LAMBDA L1 :
    OrElseTry(ExtractedAcn(L1, file, tx, pii), LAMBDA L2 :
    OrElseTry(ExtractedPhone(L2, file, tx, pii), LAMBDA L3 :
    OrElseTry(ExtractedAddress(config, L3, file, tx, pii), LAMBDA L4 :
    OrElseTry(ExtractedName(config, L4, file, tx, pii), LAMBDA L5 :
              Tried(L5, NoMatchPostReview(tx)))))))

\* Transaction(transaction_id=str(row['id']), ..., email=..., platform="stripe")
TransactionOfRow(row) ==
    [transaction_id |-> row.id, description |-> <<>>, email |-> row.customer_email,
     client_identifier |-> None, platform |-> "stripe",
     client_name |-> None, client_suburb |-> None]

\* next(tx for tx in transactions if tx.transaction_id == transaction_id)
TransactionById(transactions, transaction_id) ==
    transactions[CHOOSE n \in DOMAIN transactions :
                     /\ transactions[n].transaction_id = transaction_id
                     /\ \A m \in 1..(n - 1) : transactions[m].transaction_id # transaction_id]

\* the MatchResult of a row that was matched in the original run
PreviouslyMatched(tx) ==
    MatchResult(tx, "PREVIOUSLY_MATCHED", ExactScore, "previously_matched", EmptyDict,
                TRUE, FALSE)

\* the match_result of the first pass for one row, and the loader afterwards
DirectResult(config, L, file, transaction, row) ==
    IF row.matched THEN Tried(L, PreviouslyMatched(transaction))
    ELSE match_by_extracted_pii(config, L, file, transaction, row.pii)

\* A mapping that every matched row with an email feeds, also a row that
\* was matched in the original run.
MapAfter_any_match(map, transaction, row, match_result) ==
    IF match_result.is_matched /\ Truthy(transaction.email)
    THEN DictSet(map, transaction.email,
                 [client_id |-> match_result.client_caura_id,
                  method |-> match_result.match_method,
                  details |-> match_result.match_details])
    ELSE map

\* email_to_client_map after the row: a later row with the same email
\* replaces the entry of an earlier one
MapAfter(map, transaction, row, match_result) ==
    IF /\ ~row.matched
       /\ match_result.is_matched
       /\ match_result.client_caura_id # "PREVIOUSLY_MATCHED"
       /\ Truthy(transaction.email)
    THEN DictSet(map, transaction.email,
                 [client_id |-> match_result.client_caura_id,
                  method |-> match_result.match_method,
                  details |-> match_result.match_details])
    ELSE map

\* A first pass that keeps the first mapping found for an email.
FirstPassRow_first_wins(config, L, pr, row, match_result) ==
    IF match_result.exc # "" THEN [pr EXCEPT !.phase = "failed"]
    ELSE [pr EXCEPT
            !.match_results = Append(@, match_result),
            !.email_to_client_map =
                IF TransactionById(pr.transactions, row.id).email \in DOMAIN @ THEN @
                ELSE MapAfter(@, TransactionById(pr.transactions, row.id), row, match_result)]

\* one pass of the first loop of main; an exception ends the run (sys.exit(1))
FirstPassRow(config, L, pr, row, match_result) ==
    IF match_result.exc # "" THEN [pr EXCEPT !.phase = "failed"]
    ELSE [pr EXCEPT
            !.match_results = Append(@, match_result),
            !.email_to_client_map =
                MapAfter(@, TransactionById(pr.transactions, row.id), row, match_result)]

\* the MatchResult the second pass puts in the place of an unmatched one
PropagatedResult(transaction, mapping) ==
    MatchResult(transaction, mapping.client_id, PropagatedScore,
                "email_propagated_from_" \o mapping.method,
                [propagated_from_email |-> transaction.email,
                 original_match_method |-> mapping.method,
                 original_details |-> mapping.details],
                TRUE, FALSE)

\* A propagation that only takes the mappings found by the rows before row i.
SecondPassRow_rows_before(pr, i, transaction, map) ==
    IF pr.match_results[i].is_matched \/ ~Truthy(transaction.email) THEN pr
    ELSE IF /\ transaction.email \in DOMAIN map
            /\ \E m \in 1..(i - 1) : /\ pr.transactions[m].email = transaction.email
                                      /\ ~pr.rows[m].matched
                                      /\ pr.match_results[m].is_matched
         THEN [pr EXCEPT !.match_results[i] = PropagatedResult(transaction, map[transaction.email])]
    ELSE pr

\* one pass of the second loop of main, for row i
SecondPassRow(pr, i, transaction, map) ==
    IF pr.match_results[i].is_matched \/ ~Truthy(transaction.email) THEN pr
    ELSE IF transaction.email \in DOMAIN map
         THEN [pr EXCEPT !.match_results[i] = PropagatedResult(transaction, map[transaction.email])]
    ELSE pr

\* no post-review run
NoRun ==
    [phase |-> "idle", rows |-> <<>>, transactions |-> <<>>, i |-> 1,
     match_results |-> <<>>, email_to_client_map |-> EmptyDict]

\* transactions.append(Transaction(...)) for every row of the sheet
TransactionsOf(rows) == [n \in DOMAIN rows |-> TransactionOfRow(rows[n])]

\* the first loop of main as far as row n: [L |-> the loader, pr |-> the
\* state of main] after the pass
RECURSIVE FirstPass(_, _, _, _, _)

\* one pass of the first loop after its match has ended as direct
FirstPassAfterMatch(config, before, row, direct) ==
    [L |-> direct.L, pr |-> FirstPassRow(config, direct.L, before, row, direct.result)]

FirstPassNext(config, L, file, before, row) ==
    IF before.phase = "failed" THEN [L |-> L, pr |-> before]
    ELSE FirstPassAfterMatch(config, before, row,
                             DirectResult(config, L, file,
                                          TransactionById(before.transactions, row.id), row))

\* the pass for row n, after the passes before it have ended as so_far
FirstPassAfter(config, file, so_far, row) ==
    FirstPassNext(config, so_far.L, file, so_far.pr, row)

FirstPass(config, L, file, start, n) ==
    IF n = 0 THEN [L |-> L, pr |-> start]
    ELSE FirstPassAfter(config, file, FirstPass(config, L, file, start, n - 1), start.rows[n])

\* the second loop of main as far as row n
RECURSIVE SecondPass(_, _)
SecondPassNext(before, n) ==
    SecondPassRow(before, n, TransactionById(before.transactions, before.rows[n].id),
                  before.email_to_client_map)

SecondPass(first, n) ==
    IF n = 0 THEN first ELSE SecondPassNext(SecondPass(first, n - 1), n)

\* the second loop runs when the first has ended without an exception
ThenSecondPass(first) ==
    IF first.phase = "failed" THEN first ELSE SecondPass(first, Len(first.rows))

\* main, from the first loop to the end of the second
post_review(config, L, file, rows) ==
    ThenSecondPass(FirstPass(config, L, file,
                             [NoRun EXCEPT !.rows = rows, !.transactions = TransactionsOf(rows)],
                             Len(rows)).pr)

(***************************************************************************)
(* The registries, configurations and transactions of the model.           *)
(***************************************************************************)
NoLocation == [address_1 |-> <<>>, address_2 |-> <<>>, suburb |-> <<>>, postcode |-> <<>>]

\* "amy fox", a@x, 1 st / kew / 3052, stripe client_id k1
ClientAmy ==
    [caura_id |-> "CL1", given_name |-> <<"a","m","y">>, family_name |-> <<"f","o","x">>,
     emails |-> << <<"a","@","x">> >>,
     location |-> [address_1 |-> <<>>, address_2 |-> <<"1"," ","s","t">>, suburb |-> <<"k","e","w">>,
                   postcode |-> <<"3","0","5","2">>],
     platform_identifiers |->
         << [platform |-> "stripe", client_id |-> <<"k","1">>, display_name |-> <<>>] >>]

\* "Bo Day", b@x, no location, stripe display_name "Bo"
ClientBo ==
    [caura_id |-> "CL2", given_name |-> <<"B","o">>, family_name |-> <<"D","a","y">>,
     emails |-> << <<"b","@","x">> >>,
     location |-> NoLocation,
     platform_identifiers |->
         << [platform |-> "stripe", client_id |-> <<>>, display_name |-> <<"B","o">>] >>]

\* no name, no email, a location whose only part is the suburb "-"
ClientDash ==
    [caura_id |-> "CL3", given_name |-> <<>>, family_name |-> <<>>,
     emails |-> <<>>,
     location |-> [address_1 |-> <<>>, address_2 |-> <<>>, suburb |-> <<"-">>,
                   postcode |-> <<>>],
     platform_identifiers |-> <<>>]

\* "amy fax", lists A@X (the email of ClientAmy in another case), shiftcare k1
ClientFax ==
    [caura_id |-> "CL4", given_name |-> <<"a","m","y">>, family_name |-> <<"f","a","x">>,
     emails |-> << <<"A","@","X">> >>,
     location |-> NoLocation,
     platform_identifiers |->
         << [platform |-> "shiftcare", client_id |-> <<"k","1">>, display_name |-> <<>>] >>]

\* no name, no email: 12 Smith St / Parkville / 3052
ClientSmith ==
    [caura_id |-> "C2", given_name |-> <<>>, family_name |-> <<>>,
     emails |-> <<>>,
     location |-> [address_1 |-> <<>>, address_2 |-> <<"1","2"," ","S","m","i","t","h"," ","S","t">>,
                   suburb |-> <<"P","a","r","k","v","i","l","l","e">>, postcode |-> <<"3","0","5","2">>],
     platform_identifiers |-> <<>>]

\* another client of the same suburb: 9 Oak Rd / Parkville
ClientPark ==
    [caura_id |-> "CL5", given_name |-> <<>>, family_name |-> <<>>,
     emails |-> <<>>,
     location |-> [address_1 |-> <<>>, address_2 |-> <<"9"," ","O","a","k"," ","R","d">>,
                   suburb |-> <<"P","a","r","k","v","i","l","l","e">>, postcode |-> <<>>],
     platform_identifiers |-> <<>>]

\* "personal_info": {"given_name": "Cy", "family_name": "Orr", "emails": null}
ClientNull ==
    [caura_id |-> "CL6", given_name |-> <<"C","y">>, family_name |-> <<"O","r","r">>,
     emails |-> None,
     location |-> NoLocation,
     platform_identifiers |-> <<>>]

\* "amy foxton", no email, no location
ClientFoxton ==
    [caura_id |-> "CL7", given_name |-> <<"a","m","y">>,
     family_name |-> <<"f","o","x","t","o","n">>,
     emails |-> <<>>,
     location |-> NoLocation,
     platform_identifiers |-> <<>>]

\* "amy z" of the suburb kew
ClientZed ==
    [caura_id |-> "CL8", given_name |-> <<"a","m","y">>, family_name |-> <<"z">>,
     emails |-> <<>>,
     location |-> [address_1 |-> <<>>, address_2 |-> <<>>, suburb |-> <<"k","e","w">>,
                   postcode |-> <<>>],
     platform_identifiers |-> <<>>]

\* the record of ClientAmy under the id ""
ClientBlank == [ClientAmy EXCEPT !.caura_id = ""]

\* the record of ClientBo under the id "clients"
ClientKeyed == [ClientBo EXCEPT !.caura_id = "clients"]

Files ==
    { [shape |-> "flat",     clients |-> <<ClientAmy, ClientBo>>],
      [shape |-> "flat",     clients |-> <<ClientPark, ClientSmith>>],
      [shape |-> "envelope", clients |-> <<ClientBo, ClientAmy, ClientFax>>],
      [shape |-> "flat",     clients |-> <<ClientAmy, ClientDash>>],
      [shape |-> "flat",     clients |-> <<ClientFoxton, ClientZed>>],
      [shape |-> "flat",     clients |-> <<ClientFax, ClientBlank>>],
      [shape |-> "flat",     clients |-> <<>>],
      [shape |-> "invalid",  clients |-> <<>>] }

ConfigDefault ==
    [confidence_thresholds |-> NoneValue, name_threshold |-> NoneValue,
     min_score |-> NoneValue]

\* a configured "high" band above the 0.85 of MatchResult.confidence_level
ConfigStrict ==
    [ConfigDefault EXCEPT
        !.confidence_thresholds = Some([high |-> 9500, medium |-> 6000, low |-> 4000])]

\* confidence_thresholds without a "high" entry
ConfigNoHigh ==
    [ConfigDefault EXCEPT !.confidence_thresholds = Some([medium |-> 6000, low |-> 4000])]

\* name_threshold given as the percentage 85, min_score 0.70
ConfigPercent ==
    [ConfigDefault EXCEPT !.name_threshold = Some(850000), !.min_score = Some(7000)]

\* the documents the registry path holds over time: those of Files and one
\* whose second record has "emails": null
LoadFiles ==
    Files \cup { [shape |-> "flat", clients |-> <<ClientAmy, ClientNull, ClientBo>>],
                 [shape |-> "flat", clients |-> <<ClientAmy, ClientKeyed>>] }

\* the addresses looked up in the email index
LookupEmails ==
    { <<"a","@","x">>, <<"A","@","X">>, <<"b","@","x">>, <<"q","@","x">> }

\* "cy lee", c@y, contact number "04 12", aged_care acn 77
ClientCee ==
    [caura_id |-> "C3", given_name |-> <<"c","y">>, family_name |-> <<"l","e","e">>,
     emails |-> << <<"c","@","y">> >>,
     contact_numbers |-> << <<"0","4"," ","1","2">> >>,
     location |-> NoLocation,
     platform_identifiers |->
         << [platform |-> "aged_care", client_id |-> <<>>, display_name |-> <<>>,
             acn |-> <<"7","7">>] >>]

\* the registry of the post-review runs
ReviewFile == [shape |-> "flat", clients |-> <<ClientAmy, ClientBo, ClientCee>>]

\* the documents the run finds at the path of the client map: the registry,
\* or a JSON value that is no object
ReviewFiles == {ReviewFile, [shape |-> "invalid", clients |-> <<>>]}

NoPii == [Name |-> None, Address |-> None, ACN |-> None, Phone |-> None, Email |-> None]

SheetRow(id, customer_email, matched, pii) ==
    [id |-> id, customer_email |-> customer_email, matched |-> matched, pii |-> pii]

\* the customer email most rows share
SharedEmail == <<"e","@","y">>

\* the rows sheets are made of: phone 0412 (C3), nothing extracted, name
\* "bo day" (CL2), matched in the original run, email A@X (CL1) with the
\* phone of C3 and the name of CL2 on a row without customer email, and
\* acn 99 (nobody) with address "1 st kew" (CL1)
SheetRows ==
    { SheetRow("T1", SharedEmail, FALSE, [NoPii EXCEPT !.Phone = <<"0","4","1","2">>]),
      SheetRow("T2", SharedEmail, FALSE, NoPii),
      SheetRow("T3", SharedEmail, FALSE, [NoPii EXCEPT !.Name = <<"b","o"," ","d","a","y">>]),
      SheetRow("T4", SharedEmail, TRUE, NoPii),
      SheetRow("T5", None, FALSE,
               [NoPii EXCEPT !.Email = <<"A","@","X">>,
                             !.Phone = <<"0","4","1","2">>,
                             !.Name = <<"b","o"," ","d","a","y">>]),
      SheetRow("T6", SharedEmail, FALSE,
               [NoPii EXCEPT !.ACN = <<"9","9">>,
                             !.Address = <<"1"," ","s","t"," ","k","e","w">>]) }

\* (a tuple: the configurations are records of different shapes)
Configs == <<ConfigDefault, ConfigStrict, ConfigNoHigh, ConfigPercent>>

DescAmyFox == <<"A","M","Y"," ","F","O","X">>
DescAmyFax == <<"a","m","y"," ","f","a","x">>
DescZz == <<"z","z"," ","z","z">>
DescNines == <<"9","9","9","9","9">>
DescPostcode == <<"3","0","5","2","0">>
DescKew == <<"k","e","w","1","2">>
DescDashes == <<"-","-","-","-","-">>
Descriptions ==
    {DescAmyFox, DescAmyFax, DescZz, DescNines, DescPostcode, DescKew, DescDashes, <<>>}

\* "PAYMENT 12 Smith Street Parkville"
DescPayment ==
    <<"P","A","Y","M","E","N","T"," ","1","2"," ","S","m","i","t","h"," ","S","t","r","e","e","t"," ","P","a","r","k","v","i","l","l","e">>

\* the texts given to the address search
SearchDescriptions == Descriptions \cup {DescPayment}

Tx(id, description, email, identifier, platform, name, suburb) ==
    [transaction_id |-> id, description |-> description, email |-> email,
     client_identifier |-> identifier, platform |-> platform,
     client_name |-> name, client_suburb |-> suburb]

\* transactions that vary the identifier and the email
FrontTxs ==
    { Tx("T1", d, e, i, m[1], m[2], None) :
        d \in {DescAmyFox, DescNines},
        e \in {None, <<"A","@","X">>, <<"b","@","x">>, <<"q","@","x">>},
        i \in {None, <<"k","1">>, <<"B","O">>, <<"z","z">>},
        m \in { <<"stripe", None>>, <<"paper_receipt", <<"A","m","y"," ","F","o","x">>>> } }

\* transactions with neither: the name, receipt and address strategies
TailTxs ==
    { Tx("T1", d, None, None, m[1], m[2], m[3]) :
        d \in Descriptions,
        m \in { <<"stripe", None, None>>,
                <<"paper_receipt", None, None>>,
                <<"paper_receipt", <<"A","m","y"," ","F","o","x">>, <<"K","e","w">>>>,
                <<"paper_receipt", <<"a","m","x"," ","f","a","x">>, None>>,
                <<"paper_receipt", <<"a","m","x"," ","f","a","x">>, <<"k","e","w">>>>,
                <<"paper_receipt", <<"q","q","q">>, None>> } }

\* transactions with an empty description and an email or an identifier
EmptyTxs ==
    { Tx("T1", <<>>, <<"q","@","x">>, None, "stripe", None, None),
      Tx("T1", <<>>, None, <<"z","z">>, "stripe", None, None) }

\* a card payment whose metadata carries a client name and suburb
NamedStripeTxs ==
    { Tx("T1", DescAmyFox, None, None, "stripe",
         <<"A","m","y"," ","F","o","x">>, <<"K","e","w">>) }

Txs == FrontTxs \cup TailTxs \cup EmptyTxs \cup NamedStripeTxs

\* the transactions batches are made of
BatchTxs ==
    { Tx("T1", DescAmyFox, None, <<"k","1">>, "stripe", None, None),
      Tx("T2", DescNines, <<"b","@","x">>, None, "stripe", None, None),
      Tx("T3", DescPostcode, None, None, "stripe", None, None) }

RECURSIVE SeqsUpTo(_, _)
SeqsUpTo(S, n) ==
    IF n = 0 THEN {<<>>}
    ELSE LET shorter == SeqsUpTo(S, n - 1)
         IN  shorter \cup {Append(q, x) : q \in {r \in shorter : Len(r) = n - 1}, x \in S}

Batches == SeqsUpTo(BatchTxs, MaxBatch)

\* the sheets: up to MaxRows rows with different ids
Sheets ==
    {sh \in SeqsUpTo(SheetRows, MaxRows) :
        \A m, n \in DOMAIN sh : m # n => sh[m].id # sh[n].id}

\* the default, 0.70 and 0.0
MinScores == {DefaultMinScore, 7000, 0}

\* the characters of the short inputs of the _normalize_address
\* specification: letters that spell "st" and "apt" in both cases, a space,
\* a carriage return, a comma and an underscore
AddrAlphabet == {"s", "t", "S", "a", "p", " ", "\r", ",", "_"}

\* the words of the longer inputs: every abbreviation and every word the two
\* tables of _normalize_address look for, every word they put, some of them
\* in capitals, a number, a name, and "sts", which holds "st" inside a word
AddrWords ==
    { <<"s","t">>,
      <<"r","d">>,
      <<"a","v","e">>,
      <<"a","v","e","n","u","e">>,
      <<"d","r">>,
      <<"p","l">>,
      <<"c","r">>,
      <<"c","r","e","s","c","e","n","t">>,
      <<"c","t">>,
      <<"c","o","u","r","t">>,
      <<"l","n">>,
      <<"l","a","n","e">>,
      <<"w","y">>,
      <<"w","a","y">>,
      <<"u","n","i","t">>,
      <<"a","p","t">>,
      <<"a","p","a","r","t","m","e","n","t">>,
      <<"f","l","a","t">>,
      <<"s","t","r","e","e","t">>,
      <<"r","o","a","d">>,
      <<"d","r","i","v","e">>,
      <<"p","l","a","c","e">>,
      <<"u">>,
      <<"S","t">>,
      <<"R","D">>,
      <<"A","p","t">>,
      <<"U","N","I","T">>,
      <<"1","2">>,
      <<"s","m","i","t","h">>,
      <<"s","t","s">> }

\* what stands between, before and after the words: one whitespace
\* character of ASCII, a no-break space, a line separator, or one of the
\* punctuation characters , . - _ /
AddrSeparators ==
    {<<c>> : c \in {w \in Whitespace : Len(w) = 1 \/ w \in {"U+00A0", "U+2028"}}
                    \cup Punctuation}

\* the words that are put on both sides of two separators, and in threes
AddrFewWords == { <<"a","p","t">>, <<"S","t">>, <<"s","t","r","e","e","t">>, <<"1","2">> }

\* the inputs of the _normalize_address specification: None, every string of
\* up to MaxAddrLen characters of AddrAlphabet, two words with a separator
\* between them, one word with a separator or nothing on each side, two of
\* the few words with two separators between them, three of the few words
\* a space apart, and two of the few words with any one whitespace character
\* before, between and after them
AddrInputs(words, few_words, separators) ==
    {None}
    \cup SeqsUpTo(AddrAlphabet, MaxAddrLen)
    \cup {v \o s \o w : v \in words, s \in separators, w \in words}
    \cup {s \o w \o r : s \in separators \cup {<<>>}, w \in words,
                         r \in separators \cup {<<>>}}
    \cup {v \o s \o r \o w : v \in few_words, s \in separators,
                              r \in separators, w \in few_words}
    \cup {u \o <<" ">> \o v \o <<" ">> \o w : u \in few_words, v \in few_words,
                                               w \in few_words}
    \cup {<<c>> \o v \o <<c>> \o w \o <<c>> : c \in Whitespace, v \in few_words,
                                                w \in few_words}

(***************************************************************************)
(* State.                                                                  *)
(*   registry_file  the JSON document at registry_path                     *)
(*   config         config["matching"] given to TransactionMatcher         *)
(*   loader         the ClientMapLoader: cache and indices                 *)
(*   last           the call that has just been made, with what it        *)
(*                  returned or raised; [op |-> "idle"] between calls      *)
(*   addr_pc, addr_in, addr_once, addr_twice                               *)
(*                  the _normalize_address specification: the input, its   *)
(*                  normalisation and the normalisation of that            *)
(*   pr             the run of the post-review script: its phase, the rows  *)
(*                  of the sheet, the loop index, match_results and        *)
(*                  email_to_client_map                                    *)
(*   callers        the threads that call one ClientMapLoader: for each,   *)
(*                  the statement it is at and its local variables         *)
(*   importer       the ShiftCare extraction: its progress file, the page  *)
(*                  it is at and why its page loop ended                   *)
(***************************************************************************)
VARIABLES registry_file, config, loader, last, addr_pc, addr_in, addr_once, addr_twice, pr, callers, importer

vars == <<registry_file, config, loader, last, addr_pc, addr_in, addr_once, addr_twice, pr, callers, importer>>
run_vars == <<pr, callers, importer>>
addr_vars == <<addr_pc, addr_in, addr_once, addr_twice>>
core_vars == <<registry_file, config, loader, last>>

Idle == [op |-> "idle"]

Callers == {1, 2}

\* a thread that is not in a call
IdleCaller ==
    [pc |-> "idle", email |-> <<>>, clients |-> <<>>, k |-> 1, j |-> 1, result |-> NoClient]
NoCallers == [c \in Callers |-> IdleCaller]

\* no progress file on disk
NoProgress ==
    [exists |-> FALSE, readable |-> FALSE, last_completed_page |-> 0,
     completed_invoice_ids |-> {}]

\* an importer that is not extracting
NoImport ==
    [pc |-> "idle", progress_file |-> NoProgress, page |-> 1, n |-> 1, completed_ids |-> {},
     ended_by |-> "", at_break |-> NoProgress]

Init ==
    /\ registry_file \in Files
    /\ \E n \in DOMAIN Configs : config = Configs[n]
    /\ loader = NewLoader
    /\ last = Idle
    /\ addr_pc = "idle"
    /\ addr_in = <<>>
    /\ addr_once = <<>>
    /\ addr_twice = <<>>
    /\ pr = NoRun
    /\ callers = NoCallers
    /\ importer = NoImport

\* a call of load_client_map
LoadClientMap ==
    /\ last = Idle
    /\ \E ld \in {load_client_map(loader, registry_file)} :
           /\ loader' = ld.L
           /\ last' = [op |-> "load_client_map", exc |-> ld.exc,
                       read |-> loader.client_cache.is_none,
                       registry |-> IF ld.exc # "" THEN NoneValue ELSE ld.L.client_cache]
    /\ UNCHANGED <<registry_file, config, addr_vars, run_vars>>

\* a call of match_transaction(tx)
MatchTransaction ==
    /\ last = Idle
    /\ \E tx \in Txs :
        \E out \in {match_transaction(config, loader, registry_file, tx)} :
            /\ loader' = out.L
            /\ last' = [op |-> "match_transaction", tx |-> tx, result |-> out.result]
    /\ UNCHANGED <<registry_file, config, addr_vars, run_vars>>

\* a call of bulk_match_transactions(transactions)
BulkMatchTransactions ==
    /\ last = Idle
    /\ \E transactions \in Batches :
        \E out \in {bulk_match_transactions(config, loader, registry_file, transactions)} :
            /\ loader' = out.L
            /\ last' = [op |-> "bulk_match_transactions", transactions |-> transactions,
                        exc |-> out.exc, results |-> out.results]
    /\ UNCHANGED <<registry_file, config, addr_vars, run_vars>>

\* a call of find_client_by_street_address(description, min_score)
FindClientByStreetAddress ==
    /\ last = Idle
    /\ \E description \in SearchDescriptions, min_score \in MinScores :
        \E out \in {find_client_by_street_address(loader, registry_file, description,
                                                  min_score)} :
            /\ loader' = out.L
            /\ last' = [op |-> "find_client_by_street_address",
                        description |-> description, min_score |-> min_score,
                        exc |-> out.exc, result |-> out.v]
    /\ UNCHANGED <<registry_file, config, addr_vars, run_vars>>

\* the caller takes the outcome of the call and goes on
Return ==
    /\ last # Idle
    /\ last' = Idle
    /\ UNCHANGED <<registry_file, config, loader, addr_vars, run_vars>>

Next ==
    \/ LoadClientMap
    \/ MatchTransaction
    \/ BulkMatchTransactions
    \/ FindClientByStreetAddress
    \/ Return

Spec == Init /\ [][Next]_vars

(***************************************************************************)
(* The specification of the pure function _normalize_address: every input  *)
(* of AddrInputs is normalised once, and the result once more.             *)
(***************************************************************************)
AddrInit ==
    /\ registry_file \in {f \in Files : f.shape = "invalid"}
    /\ config = ConfigDefault
    /\ loader = NewLoader
    /\ last = Idle
    /\ addr_pc = "input"
    /\ addr_in \in AddrInputs(AddrWords, AddrFewWords, AddrSeparators)
    /\ addr_once = <<>>
    /\ addr_twice = <<>>
    /\ pr = NoRun
    /\ callers = NoCallers
    /\ importer = NoImport

NormalizeOnce ==
    /\ addr_pc = "input"
    /\ addr_once' = normalize_address(addr_in)
    /\ addr_pc' = "once"
    /\ UNCHANGED <<addr_in, addr_twice, core_vars, run_vars>>

NormalizeTwice ==
    /\ addr_pc = "once"
    /\ addr_twice' = normalize_address(addr_once)
    /\ addr_pc' = "twice"
    /\ UNCHANGED <<addr_in, addr_once, core_vars, run_vars>>

AddrNext == NormalizeOnce \/ NormalizeTwice

AddrSpec == AddrInit /\ [][AddrNext]_vars

(***************************************************************************)
(* The specification of the loader alone: the document at registry_path    *)
(* is replaced between calls, and callers load and look emails up.         *)
(***************************************************************************)
LoadInit ==
    /\ registry_file \in LoadFiles
    /\ config = ConfigDefault
    /\ loader = NewLoader
    /\ last = Idle
    /\ addr_pc = "idle"
    /\ addr_in = <<>>
    /\ addr_once = <<>>
    /\ addr_twice = <<>>
    /\ pr = NoRun
    /\ callers = NoCallers
    /\ importer = NoImport

\* the file that open(self.registry_path) reads is replaced by another
ChangeRegistryFile ==
    /\ last = Idle
    /\ registry_file' \in LoadFiles \ {registry_file}
    /\ UNCHANGED <<config, loader, last, addr_vars, run_vars>>

\* a call of find_client_by_email(email)
FindClientByEmail ==
    /\ last = Idle
    /\ \E email \in LookupEmails :
        \E out \in {find_client_by_email(loader, registry_file, email)} :
            /\ loader' = out.L
            /\ last' = [op |-> "find_client_by_email", email |-> email,
                        exc |-> out.exc, result |-> out.v]
    /\ UNCHANGED <<registry_file, config, addr_vars, run_vars>>

\* the names looked up in the name index
LookupNames ==
    { <<"A","m","y"," ","F","o","x">>, <<"b","o"," ","d","a","y">>, <<"z","z">> }

\* the identifiers looked up in the platform index, and the ids got
LookupIdentifiers == { <<"k","1">>, <<"K","1">>, <<"B","O">>, <<"z","z">> }
LookupIds == { "CL1", "CL2", "ZZ" }

\* a call of find_clients_by_name(name)
FindClientsByName ==
    /\ last = Idle
    /\ \E name \in LookupNames :
        \E out \in {find_clients_by_name(loader, registry_file, name)} :
            /\ loader' = out.L
            /\ last' = [op |-> "find_clients_by_name", name |-> name,
                        exc |-> out.exc, result |-> out.v]
    /\ UNCHANGED <<registry_file, config, addr_vars, run_vars>>

\* a call of find_client_by_platform_id(platform, identifier)
FindClientByPlatformId ==
    /\ last = Idle
    /\ \E platform \in {"stripe", "shiftcare"}, identifier \in LookupIdentifiers :
        \E out \in {find_client_by_platform_id(loader, registry_file, platform,
                                               identifier)} :
            /\ loader' = out.L
            /\ last' = [op |-> "find_client_by_platform_id", platform |-> platform,
                        identifier |-> identifier,
                        exc |-> out.exc, result |-> out.v]
    /\ UNCHANGED <<registry_file, config, addr_vars, run_vars>>

\* a call of get_client(caura_id)
GetClient ==
    /\ last = Idle
    /\ \E caura_id \in LookupIds :
        \E out \in {get_client(loader, registry_file, caura_id)} :
            /\ loader' = out.L
            /\ last' = [op |-> "get_client", caura_id |-> caura_id, exc |-> out.exc,
                        result |-> out.v]
    /\ UNCHANGED <<registry_file, config, addr_vars, run_vars>>

\* a call of get_client_by_address(address) with an email or an identifier
GetClientByAddress ==
    /\ last = Idle
    /\ \E address \in LookupEmails \cup LookupIdentifiers :
        \E out \in {get_client_by_address(loader, registry_file, address)} :
            /\ loader' = out.L
            /\ last' = [op |-> "get_client_by_address", address |-> address,
                        exc |-> out.exc, result |-> out.v]
    /\ UNCHANGED <<registry_file, config, addr_vars, run_vars>>

LoadNext ==
    \/ LoadClientMap
    \/ ChangeRegistryFile
    \/ FindClientByEmail
    \/ FindClientsByName
    \/ FindClientByPlatformId
    \/ GetClient
    \/ GetClientByAddress
    \/ Return

LoadSpec == LoadInit /\ [][LoadNext]_vars

(***************************************************************************)
(* The specification of the post-review run: main of                       *)
(* run_stripe_post_review_reconciliation.py over a sheet, one step for the *)
(* load and one for each pass of its two loops.                            *)
(***************************************************************************)
ReviewInit ==
    /\ registry_file \in ReviewFiles
    /\ \E n \in {1, 3} : config = Configs[n]
    /\ loader = NewLoader
    /\ last = Idle
    /\ addr_pc = "idle"
    /\ addr_in = <<>>
    /\ addr_once = <<>>
    /\ addr_twice = <<>>
    /\ \E rows \in Sheets : pr = [NoRun EXCEPT !.phase = "start", !.rows = rows]
    /\ callers = NoCallers
    /\ importer = NoImport

\* client_map.load_client_map(), and then the Transaction objects of the
\* sheet; an exception of the load ends the run before they are built
ReviewLoad ==
    /\ pr.phase = "start"
    /\ \E ld \in {load_client_map(loader, registry_file)} :
        /\ loader' = ld.L
        /\ pr' = IF ld.exc # "" THEN [pr EXCEPT !.phase = "failed"]
                 ELSE [pr EXCEPT !.phase = IF pr.rows = <<>> THEN "done" ELSE "first",
                                 !.transactions = TransactionsOf(pr.rows)]
    /\ UNCHANGED <<registry_file, config, last, addr_vars, callers, importer>>

\* one pass of the first loop: the direct match of row i
FirstPassStep ==
    /\ pr.phase = "first"
    /\ \E after \in {FirstPassNext(config, loader, registry_file, pr, pr.rows[pr.i])} :
        /\ loader' = after.L
        /\ pr' = IF after.pr.phase = "failed" THEN after.pr
                 ELSE IF pr.i = Len(pr.rows)
                 THEN [after.pr EXCEPT !.phase = "second", !.i = 1]
                 ELSE [after.pr EXCEPT !.i = pr.i + 1]
    /\ UNCHANGED <<registry_file, config, last, addr_vars, callers, importer>>

\* one pass of the second loop: the propagation to row i
SecondPassStep ==
    /\ pr.phase = "second"
    /\ \E after \in {SecondPassNext(pr, pr.i)} :
        pr' = IF pr.i = Len(pr.rows) THEN [after EXCEPT !.phase = "done"]
              ELSE [after EXCEPT !.i = pr.i + 1]
    /\ UNCHANGED <<registry_file, config, loader, last, addr_vars, callers, importer>>

ReviewNext ==
    \/ ReviewLoad
    \/ FirstPassStep
    \/ SecondPassStep

ReviewSpec == ReviewInit /\ [][ReviewNext]_vars

(***************************************************************************)
(* The specification of concurrent callers: the threads of Callers call    *)
(* find_client_by_email on one ClientMapLoader.  The loader has no lock,   *)
(* so the threads interleave freely.  A step is one statement that reads   *)
(* or writes a field of the loader; a statement reads the field once, and  *)
(* the operations of a dict are atomic, so a thread switch inside a        *)
(* statement ends as a switch before or after it.  The local variables of  *)
(* a thread in _build_indices are its place in the loops: clients (the     *)
(* items of the cache the loop runs over), k (the client) and j (the email *)
(* or the platform entry of that client).                                  *)
(***************************************************************************)
\* the registries of the loader specification that hold a client, and the
\* document that is no object
ConcFiles == {f \in LoadFiles : f.shape = "invalid" \/ f.clients # <<>>}

\* the places of a thread inside _build_indices, after its first test
BuildingPcs ==
    {"init_email", "init_name", "init_platform", "loop", "client", "email", "name",
     "name_init", "name_append", "platform", "platform_init", "client_id", "display_name"}

ConcInit ==
    /\ registry_file \in ConcFiles
    /\ config = ConfigDefault
    /\ loader = NewLoader
    /\ last = Idle
    /\ addr_pc = "idle"
    /\ addr_in = <<>>
    /\ addr_once = <<>>
    /\ addr_twice = <<>>
    /\ pr = NoRun
    /\ callers = NoCallers
    /\ importer = NoImport

\* the client and the platform entry a thread is at
ClientAt(caller) == caller.clients[caller.k]
PlatformAt(caller) == ClientAt(caller).platform_identifiers[caller.j]

\* the thread ends its call with an exception
RaisedIn(caller, exc) == [caller EXCEPT !.pc = "done", !.result = exc]

\* caller c enters find_client_by_email(email)
CallFind(c) ==
    /\ callers[c].pc = "idle"
    /\ \E email \in LookupEmails :
        callers' = [callers EXCEPT ![c] = [IdleCaller EXCEPT !.pc = "check", !.email = email]]
    /\ UNCHANGED <<core_vars, addr_vars, pr, importer>>

\* load_client_map: if self._client_cache is None
LoadCheck(c) ==
    /\ callers[c].pc = "check"
    /\ callers' = [callers EXCEPT ![c].pc = IF loader.client_cache.is_none THEN "read"
                                            ELSE "lookup"]
    /\ UNCHANGED <<core_vars, addr_vars, pr, importer>>

\* load_client_map: the file is read and self._client_cache assigned, or
\* ValueError raised
LoadRead(c) ==
    /\ callers[c].pc = "read"
    /\ IF registry_file.shape = "invalid" \/ HasClientsKey(registry_file)
       THEN /\ callers' = [callers EXCEPT ![c] =
                              RaisedIn(@, IF registry_file.shape = "invalid"
                                          THEN "ValueError" ELSE "TypeError")]
            /\ UNCHANGED loader
       ELSE /\ loader' = [loader EXCEPT !.client_cache =
                             Some(IF registry_file.shape = "envelope"
                                  THEN DictOfClients(registry_file.clients)
                                  ELSE registry_file.clients)]
            /\ callers' = [callers EXCEPT ![c].pc = "build"]
    /\ UNCHANGED <<registry_file, config, last, addr_vars, pr, importer>>

\* _build_indices: if not self._client_cache: return
BuildCheck(c) ==
    /\ callers[c].pc = "build"
    /\ callers' = [callers EXCEPT ![c].pc = IF loader.client_cache.v = <<>> THEN "lookup"
                                            ELSE "init_email"]
    /\ UNCHANGED <<core_vars, addr_vars, pr, importer>>

\* _build_indices: self._email_index = {}
InitEmailIndex(c) ==
    /\ callers[c].pc = "init_email"
    /\ loader' = [loader EXCEPT !.email_index = Some(EmptyDict)]
    /\ callers' = [callers EXCEPT ![c].pc = "init_name"]
    /\ UNCHANGED <<registry_file, config, last, addr_vars, pr, importer>>

\* _build_indices: self._name_index = {}
InitNameIndex(c) ==
    /\ callers[c].pc = "init_name"
    /\ loader' = [loader EXCEPT !.name_index = Some(EmptyDict)]
    /\ callers' = [callers EXCEPT ![c].pc = "init_platform"]
    /\ UNCHANGED <<registry_file, config, last, addr_vars, pr, importer>>

\* _build_indices: self._platform_index = {}
InitPlatformIndex(c) ==
    /\ callers[c].pc = "init_platform"
    /\ loader' = [loader EXCEPT !.platform_index = Some(EmptyDict)]
    /\ callers' = [callers EXCEPT ![c].pc = "loop"]
    /\ UNCHANGED <<registry_file, config, last, addr_vars, pr, importer>>

\* _build_indices: the loop starts over self._client_cache.items()
LoopStart(c) ==
    /\ callers[c].pc = "loop"
    /\ callers' = [callers EXCEPT ![c].pc = "client", ![c].clients = loader.client_cache.v,
                                  ![c].k = 1]
    /\ UNCHANGED <<core_vars, addr_vars, pr, importer>>

\* for caura_id, client in ...: the next client and its emails, or the end
\* of the loop and the return of _build_indices and of load_client_map;
\* "emails": null makes `for email in emails` raise TypeError
NextClient(c) ==
    /\ callers[c].pc = "client"
    /\ callers' = [callers EXCEPT ![c] =
                      IF @.k > Len(@.clients) THEN [@ EXCEPT !.pc = "lookup"]
                      ELSE IF ClientAt(@).emails = None THEN RaisedIn(@, "TypeError")
                      ELSE [@ EXCEPT !.pc = "email", !.j = 1]]
    /\ UNCHANGED <<core_vars, addr_vars, pr, importer>>

\* for email in emails: if email: self._email_index[email.lower()] = caura_id
IndexEmail(c) ==
    /\ callers[c].pc = "email"
    /\ IF callers[c].j > Len(ClientAt(callers[c]).emails)
       THEN /\ callers' = [callers EXCEPT ![c].pc = "name"]
            /\ UNCHANGED loader
       ELSE /\ loader' = IF Truthy(ClientAt(callers[c]).emails[callers[c].j])
                         THEN [loader EXCEPT !.email_index =
                                  Some(DictSet(@.v,
                                               Lower(ClientAt(callers[c]).emails[callers[c].j]),
                                               ClientAt(callers[c]).caura_id))]
                         ELSE loader
            /\ callers' = [callers EXCEPT ![c].j = @ + 1]
    /\ UNCHANGED <<registry_file, config, last, addr_vars, pr, importer>>

\* if full_name: ... if name_key not in self._name_index
NameCheck(c) ==
    /\ callers[c].pc = "name"
    /\ callers' = [callers EXCEPT ![c] =
                      IF FullName(ClientAt(@)) = <<>> THEN [@ EXCEPT !.pc = "platform", !.j = 1]
                      ELSE IF Lower(FullName(ClientAt(@))) \notin DOMAIN loader.name_index.v
                      THEN [@ EXCEPT !.pc = "name_init"]
                      ELSE [@ EXCEPT !.pc = "name_append"]]
    /\ UNCHANGED <<core_vars, addr_vars, pr, importer>>

\* self._name_index[name_key] = []
NameInit(c) ==
    /\ callers[c].pc = "name_init"
    /\ loader' = [loader EXCEPT !.name_index =
                     Some(DictSet(@.v, Lower(FullName(ClientAt(callers[c]))), <<>>))]
    /\ callers' = [callers EXCEPT ![c].pc = "name_append"]
    /\ UNCHANGED <<registry_file, config, last, addr_vars, pr, importer>>

\* self._name_index[name_key].append(caura_id): KeyError when the index has
\* been assigned anew since the key was tested or entered
NameAppend(c) ==
    /\ callers[c].pc = "name_append"
    /\ IF Lower(FullName(ClientAt(callers[c]))) \notin DOMAIN loader.name_index.v
       THEN /\ callers' = [callers EXCEPT ![c] = RaisedIn(@, "KeyError")]
            /\ UNCHANGED loader
       ELSE /\ loader' = [loader EXCEPT !.name_index =
                             Some(DictSet(@.v, Lower(FullName(ClientAt(callers[c]))),
                                          Append(@.v[Lower(FullName(ClientAt(callers[c])))],
                                                 ClientAt(callers[c]).caura_id)))]
            /\ callers' = [callers EXCEPT ![c].pc = "platform", ![c].j = 1]
    /\ UNCHANGED <<registry_file, config, last, addr_vars, pr, importer>>

\* for platform_info in platform_ids: ... if platform not in
\* self._platform_index; after the last entry, the next client
PlatformCheck(c) ==
    /\ callers[c].pc = "platform"
    /\ callers' = [callers EXCEPT ![c] =
                      IF @.j > Len(ClientAt(@).platform_identifiers)
                      THEN [@ EXCEPT !.pc = "client", !.k = @ + 1]
                      ELSE IF PlatformAt(@).platform \notin DOMAIN loader.platform_index.v
                      THEN [@ EXCEPT !.pc = "platform_init"]
                      ELSE [@ EXCEPT !.pc = "client_id"]]
    /\ UNCHANGED <<core_vars, addr_vars, pr, importer>>

\* self._platform_index[platform] = {}
PlatformInit(c) ==
    /\ callers[c].pc = "platform_init"
    /\ loader' = [loader EXCEPT !.platform_index =
                     Some(DictSet(@.v, PlatformAt(callers[c]).platform, EmptyDict))]
    /\ callers' = [callers EXCEPT ![c].pc = "client_id"]
    /\ UNCHANGED <<registry_file, config, last, addr_vars, pr, importer>>

\* self._platform_index[platform][key] = caura_id on the loader L: KeyError
\* when the index has been assigned anew since the platform was tested or
\* entered
PlatformStore(L, platform, key, caura_id) ==
    IF platform \notin DOMAIN L.platform_index.v THEN [L |-> L, exc |-> "KeyError"]
    ELSE [L |-> [L EXCEPT !.platform_index =
                    Some(DictSet(@.v, platform, DictSet(@.v[platform], key, caura_id)))],
          exc |-> ""]

\* if client_id: self._platform_index[platform][client_id] = caura_id
IndexClientId(c) ==
    /\ callers[c].pc = "client_id"
    /\ \E stored \in {IF Truthy(PlatformAt(callers[c]).client_id)
                      THEN PlatformStore(loader, PlatformAt(callers[c]).platform,
                                         PlatformAt(callers[c]).client_id,
                                         ClientAt(callers[c]).caura_id)
                      ELSE [L |-> loader, exc |-> ""]} :
        /\ loader' = stored.L
        /\ callers' = [callers EXCEPT ![c] = IF stored.exc # "" THEN RaisedIn(@, stored.exc)
                                             ELSE [@ EXCEPT !.pc = "display_name"]]
    /\ UNCHANGED <<registry_file, config, last, addr_vars, pr, importer>>

\* if display_name: self._platform_index[platform][display_name.lower()] =
\* caura_id; then the next platform entry
IndexDisplayName(c) ==
    /\ callers[c].pc = "display_name"
    /\ \E stored \in {IF Truthy(PlatformAt(callers[c]).display_name)
                      THEN PlatformStore(loader, PlatformAt(callers[c]).platform,
                                         Lower(PlatformAt(callers[c]).display_name),
                                         ClientAt(callers[c]).caura_id)
                      ELSE [L |-> loader, exc |-> ""]} :
        /\ loader' = stored.L
        /\ callers' = [callers EXCEPT ![c] = IF stored.exc # "" THEN RaisedIn(@, stored.exc)
                                             ELSE [@ EXCEPT !.pc = "platform", !.j = @ + 1]]
    /\ UNCHANGED <<registry_file, config, last, addr_vars, pr, importer>>

\* find_client_by_email: return self._email_index.get(email.lower())
Lookup(c) ==
    /\ callers[c].pc = "lookup"
    /\ \E found \in {EmailIndexGet([L |-> loader, exc |-> ""], callers[c].email)} :
        callers' = [callers EXCEPT ![c].pc = "done",
                                   ![c].result = IF found.exc # "" THEN found.exc
                                                 ELSE found.v]
    /\ UNCHANGED <<core_vars, addr_vars, pr, importer>>

\* the call of caller c is over
CallReturn(c) ==
    /\ callers[c].pc = "done"
    /\ callers' = [callers EXCEPT ![c] = IdleCaller]
    /\ UNCHANGED <<core_vars, addr_vars, pr, importer>>

ConcNext ==
    \/ \E c \in Callers : CallFind(c)
    \/ \E c \in Callers : LoadCheck(c)
    \/ \E c \in Callers : LoadRead(c)
    \/ \E c \in Callers : BuildCheck(c)
    \/ \E c \in Callers : InitEmailIndex(c)
    \/ \E c \in Callers : InitNameIndex(c)
    \/ \E c \in Callers : InitPlatformIndex(c)
    \/ \E c \in Callers : LoopStart(c)
    \/ \E c \in Callers : NextClient(c)
    \/ \E c \in Callers : IndexEmail(c)
    \/ \E c \in Callers : NameCheck(c)
    \/ \E c \in Callers : NameInit(c)
    \/ \E c \in Callers : NameAppend(c)
    \/ \E c \in Callers : PlatformCheck(c)
    \/ \E c \in Callers : PlatformInit(c)
    \/ \E c \in Callers : IndexClientId(c)
    \/ \E c \in Callers : IndexDisplayName(c)
    \/ \E c \in Callers : Lookup(c)
    \/ \E c \in Callers : CallReturn(c)

ConcSpec == ConcInit /\ [][ConcNext]_vars

(***************************************************************************)
(* Properties.                                                             *)
(***************************************************************************)
Matched == last.op = "match_transaction"
Returned == Matched /\ last.result.exc = ""
NonExactMethods == {"paper_receipt_name_fuzzy", "fuzzy_name", "address_match"}
ExactMethods == {"exact_client_id", "exact_email"}

\* the client the platform index of the loader gives for (platform, identifier):
\* the identifier as it is, else lowercased; NoClient when there is none
IndexedByIdentifier(tx) ==
    IF loader.platform_index.is_none \/ ~Truthy(tx.client_identifier) THEN NoClient
    ELSE IF tx.platform \notin DOMAIN loader.platform_index.v THEN NoClient
    ELSE IF tx.client_identifier \in DOMAIN loader.platform_index.v[tx.platform]
    THEN loader.platform_index.v[tx.platform][tx.client_identifier]
    ELSE IF Lower(tx.client_identifier) \in DOMAIN loader.platform_index.v[tx.platform]
    THEN loader.platform_index.v[tx.platform][Lower(tx.client_identifier)]
    ELSE NoClient

\* the client the email index of the loader gives for the email, ignoring case
IndexedByEmail(tx) ==
    IF loader.email_index.is_none \/ ~Truthy(tx.email) THEN NoClient
    ELSE IF \E k \in DOMAIN loader.email_index.v : Lower(k) = Lower(tx.email)
    THEN loader.email_index.v[CHOOSE k \in DOMAIN loader.email_index.v :
                                  Lower(k) = Lower(tx.email)]
    ELSE NoClient

\* C1: a transaction whose (platform, client_identifier) resolves in the
\* platform index is matched to the indexed client by exact_client_id, with
\* score 1.0, is_matched and no review, whatever its email, description and
\* metadata are.
C1_ExactClientId ==
    (Matched /\ IndexedByIdentifier(last.tx) # NoClient) =>
        /\ last.result.exc = ""
        /\ last.result.match_method = "exact_client_id"
        /\ last.result.confidence_score = ExactScore
        /\ last.result.is_matched
        /\ ~last.result.requires_review
        /\ last.result.client_caura_id = IndexedByIdentifier(last.tx)

\* C2: a transaction whose email equals, ignoring case, an email of the email
\* index is matched with score 1.0 and no review, by exact_email to the client
\* of the email index, or by exact_client_id when its identifier resolves too.
C2_ExactEmail ==
    (Matched /\ IndexedByEmail(last.tx) # NoClient) =>
        /\ last.result.exc = ""
        /\ last.result.confidence_score = ExactScore
        /\ ~last.result.requires_review
        /\ IF IndexedByIdentifier(last.tx) # NoClient
           THEN last.result.match_method = "exact_client_id"
           ELSE /\ last.result.match_method = "exact_email"
                /\ last.result.client_caura_id = IndexedByEmail(last.tx)

\* two results are the same MatchResult
SameResult(a, b) ==
    /\ a.exc = b.exc
    /\ a.transaction_id = b.transaction_id
    /\ a.client_caura_id = b.client_caura_id
    /\ a.confidence_score = b.confidence_score
    /\ a.score_excess = b.score_excess
    /\ a.match_method = b.match_method
    /\ a.is_matched = b.is_matched
    /\ a.requires_review = b.requires_review
    /\ a.match_method \in NonExactMethods \cup ExactMethods
           => a.match_details = b.match_details

\* the five strategies on the transaction of the last call, in the order
\* identifier, email, paper receipt, fuzzy name, address
StrategyResults ==
    << IdentifierStrategy(loader, registry_file, last.tx).result,
       EmailStrategy(loader, registry_file, last.tx).result,
       PaperReceiptStrategy(config, loader, registry_file, last.tx).result,
       fuzzy_name_match(config, loader, registry_file, last.tx).result,
       address_match(config, loader, registry_file, last.tx).result >>

FirstOf(results) ==
    IF \E n \in DOMAIN results : results[n] # NoResult
    THEN results[CHOOSE n \in DOMAIN results :
                     /\ results[n] # NoResult
                     /\ \A m \in 1..(n - 1) : results[m] = NoResult]
    ELSE NoMatch(last.tx)

\* C3: the result of match_transaction is the result of the first strategy,
\* in the order identifier, email, paper receipt, fuzzy name, address, that
\* yields a match, and the no_match result when none does; the client and the
\* score of a later strategy are never returned.
C3_FirstStrategyWins ==
    Returned => SameResult(last.result, FirstOf(StrategyResults))

\* the email matches CL2 while the name in the description would match CL1
C3_Witness ==
    /\ Returned
    /\ StrategyResults[1] = NoResult
    /\ StrategyResults[2] # NoResult
    /\ StrategyResults[4] # NoResult
    /\ StrategyResults[4].client_caura_id = "CL1"
    /\ last.result.match_method = "exact_email"
    /\ last.result.client_caura_id = "CL2"

DefaultConfiguration ==
    /\ config.confidence_thresholds.is_none
    /\ config.name_threshold.is_none
    /\ config.min_score.is_none

\* the clients of the loaded registry that have a name
NamedClients ==
    IF loader.client_cache.is_none THEN {}
    ELSE {c \in Range(loader.client_cache.v) : FullName(c) # <<>>}

\* the score of the fuzzy-name strategy for client c and the last transaction
NameScore(c) ==
    NameInDescriptionScore(Lower(FullName(c)), Lower(last.tx.description))

\* C4: with the default configuration, a transaction (not a paper receipt)
\* for which no client's name scores >= 0.85 against the description and no
\* identifier, email or address strategy matches gets the no_match result:
\* not matched, review required, score 0.0, no client.
C4_BelowThresholdIsNoMatch ==
    (/\ Returned
     /\ DefaultConfiguration
     /\ last.tx.platform # "paper_receipt"
     /\ \A c \in NamedClients : NameScore(c) < DefaultNameThreshold
     /\ StrategyResults[1] = NoResult
     /\ StrategyResults[2] = NoResult
     /\ StrategyResults[5] = NoResult)
    => /\ last.result.match_method = "no_match"
       /\ ~last.result.is_matched
       /\ last.result.requires_review
       /\ last.result.confidence_score = NoMatchScore
       /\ last.result.client_caura_id = NoClient

\* fuzzy_matching.name_threshold as configured, 0.85 when unset
ConfiguredNameThreshold ==
    IF config.name_threshold.is_none THEN DefaultNameThreshold
    ELSE config.name_threshold.v

\* C5: a fuzzy_name or paper_receipt_name_fuzzy result has a score that is at
\* least the configured name threshold (0.85 when unset), and its client has
\* the highest score of the registry.
C5_NameResultClearsThreshold ==
    (Returned /\ last.result.match_method \in {"fuzzy_name", "paper_receipt_name_fuzzy"})
    => /\ last.result.confidence_score >= ConfiguredNameThreshold
       /\ last.result.match_method = "fuzzy_name" =>
              /\ \A c \in NamedClients : NameScore(c) <= last.result.confidence_score
              /\ \E c \in NamedClients : /\ c.caura_id = last.result.client_caura_id
                                         /\ NameScore(c) = last.result.confidence_score

\* confidence_thresholds.high as the matcher reads it
ConfiguredHigh == Thresholds(config).high

\* C6: exact results never require review; a paper-receipt, fuzzy-name or
\* address result requires review exactly when its score is below the
\* configured "high" threshold (0.85 by default); no_match requires review.
C6_ReviewPolicy ==
    Returned =>
        /\ last.result.match_method \in ExactMethods => ~last.result.requires_review
        /\ last.result.match_method \in NonExactMethods =>
               (last.result.requires_review
                    <=> last.result.confidence_score < ConfiguredHigh)
        /\ last.result.match_method = "no_match" => last.result.requires_review

\* a non-exact result between the default 0.85 and a configured high of 0.95
C6_Witness ==
    /\ Returned
    /\ last.result.match_method \in NonExactMethods
    /\ ~config.confidence_thresholds.is_none
    /\ ConfiguredHigh > DefaultHigh
    /\ last.result.confidence_score >= DefaultHigh
    /\ last.result.confidence_score < ConfiguredHigh
    /\ last.result.requires_review

\* C7: the band of confidence_level is the band that set requires_review: a
\* non-exact result requires review exactly when its confidence_level is not
\* "high", for every configuration of confidence_thresholds.
C7_LevelAgreesWithReview ==
    (Returned /\ last.result.match_method \in NonExactMethods) =>
        (last.result.requires_review <=> confidence_level(last.result) # "high")

Bulk == last.op = "bulk_match_transactions"

\* C8: bulk_match_transactions returns one result per input transaction, in
\* the order of the input: the i-th result carries the i-th transaction id.
C8_BulkPreservesOrder ==
    (Bulk /\ last.exc = "") =>
        /\ Len(last.results) = Len(last.transactions)
        /\ \A i \in DOMAIN last.transactions :
               last.results[i].transaction_id = last.transactions[i].transaction_id

\* a full batch of different transactions, matched by different strategies
C8_Witness ==
    /\ Bulk
    /\ last.exc = ""
    /\ Len(last.transactions) = MaxBatch
    /\ last.transactions[1].transaction_id # last.transactions[MaxBatch].transaction_id
    /\ last.results[1].transaction_id = last.transactions[1].transaction_id
    /\ last.results[1].match_method # last.results[MaxBatch].match_method

\* C9: _normalize_address is idempotent, and maps None and "" to "".
C9_NormalizeIdempotent ==
    /\ addr_pc = "twice" => addr_twice = addr_once
    /\ (addr_pc \in {"once", "twice"} /\ ~Truthy(addr_in)) => addr_once = <<>>

\* "Apt,\rSt" (a unit synonym, a comma and a carriage return, a street
\* abbreviation) has been normalised to "u street", and that again
C9_Witness ==
    /\ addr_pc = "twice"
    /\ addr_in = <<"a","p","t",",","\r","S","t">>
    /\ addr_once = <<"u"," ","s","t","r","e","e","t">>
    /\ addr_twice = addr_once

Found == last.op = "find_client_by_street_address" /\ last.result.found

\* the registry record of the client an address search returned
FoundClient ==
    CHOOSE c \in Range(loader.client_cache.v) : c.caura_id = last.result.client

\* C10: no strategy of find_client_by_street_address takes an empty normalised
\* string for a match: a suburb that normalises to "" gives its client no
\* suburb score, and a description that normalises to "" matches no client.
C10_EmptyNormalizedNeverMatches ==
    Found =>
        /\ normalize_address(last.description) # <<>>
        /\ (\E n \in DOMAIN last.result.details.all_scores :
                last.result.details.all_scores[n].strategy = "suburb_match")
           => normalize_address(FoundClient.location.suburb) # <<>>

Searched == last.op = "find_client_by_street_address" /\ last.exc = ""

\* the strategy scores of the n-th client of the registry for the description
\* of the last search
CandidateScores(n) ==
    ClientAddressScores(loader.client_cache.v[n], last.description,
                        normalize_address(last.description))

\* the score of the n-th client: the maximum of its strategy scores, -1 for a
\* client without address parts (no strategy applies)
CandidateScore(n) ==
    IF CandidateScores(n).skip THEN -1
    ELSE CHOOSE x \in {CandidateScores(n).scores[k].score : k \in DOMAIN CandidateScores(n).scores} :
             \A k \in DOMAIN CandidateScores(n).scores : CandidateScores(n).scores[k].score <= x

\* the first client of the registry whose score is the highest of the registry
FirstTopCandidate ==
    CHOOSE n \in DOMAIN loader.client_cache.v :
        /\ \A m \in DOMAIN loader.client_cache.v : CandidateScore(m) <= CandidateScore(n)
        /\ \A m \in 1..(n - 1) : CandidateScore(m) < CandidateScore(n)

TooShort == ~Truthy(last.description) \/ Len(Strip(last.description)) < MinAddressChars

\* C11: the address search returns None for a null text or one
\* of fewer than 5 trimmed characters; otherwise it returns the first client,
\* in registry order, whose score (the maximum of its strategy scores) is the
\* highest of the registry, provided that score is >= minScore, and None when
\* no client's score is >= minScore.
C11_AddressSearchAsClaimed ==
    Searched =>
        IF TooShort THEN ~last.result.found
        ELSE IF \E n \in DOMAIN loader.client_cache.v :
                    CandidateScore(n) >= last.min_score
        THEN /\ last.result.found
             /\ last.result.client = loader.client_cache.v[FirstTopCandidate].caura_id
             /\ last.result.score = CandidateScore(FirstTopCandidate)
        ELSE ~last.result.found

\* the registry holds the client C2 of the scenario
HoldsSmith ==
    /\ ~loader.client_cache.is_none
    /\ \E n \in DOMAIN loader.client_cache.v : loader.client_cache.v[n] = ClientSmith

\* C12: with client C2 at "12 Smith St", "Parkville", "3052" in the registry,
\* the address search on "PAYMENT 12 Smith Street Parkville" with minimum
\* score 0.80 returns C2 with a score >= 0.80, the normalised suburb being
\* contained in the normalised input.
C12_SmithScenario ==
    (Searched /\ HoldsSmith /\ last.description = DescPayment
              /\ last.min_score = DefaultMinScore)
    => /\ last.result.found
       /\ last.result.client = ClientSmith.caura_id
       /\ last.result.score >= DefaultMinScore
       /\ \E n \in DOMAIN last.result.details.all_scores :
              /\ last.result.details.all_scores[n].strategy = "suburb_match"
              /\ last.result.details.all_scores[n].score = SuburbContainmentScore

\* the search of the scenario has returned C2, ahead of another Parkville
\* client that comes first in the registry and also clears 0.80
C12_Witness ==
    /\ Searched
    /\ HoldsSmith
    /\ last.description = DescPayment
    /\ last.min_score = DefaultMinScore
    /\ loader.client_cache.v[1] = ClientPark
    /\ CandidateScore(1) >= DefaultMinScore
    /\ last.result.client = "C2"

\* the cache holds a registry whose indices were built to the end
LoadedWhole(L) ==
    /\ ~L.client_cache.is_none
    /\ \A n \in DOMAIN L.client_cache.v : L.client_cache.v[n].emails # None

\* C13: once a load has set the cache, no later call changes the loader (the
\* cache and the three indices stay as they are), and a later call of
\* load_client_map raises nothing and returns that cache, whatever document
\* registry_path holds by then.
C13_LoadIdempotent ==
    [][~loader.client_cache.is_none =>
          /\ loader' = loader
          /\ (last = Idle /\ last'.op = "load_client_map") =>
                 (last'.exc = "" /\ last'.registry = loader.client_cache)]_vars

\* a repeated load has returned a registry that is not the one of the document
\* registry_path holds now
C13_Witness ==
    /\ last.op = "load_client_map"
    /\ last.exc = ""
    /\ LoadedWhole(loader)
    /\ last.registry = loader.client_cache
    /\ load_client_map(NewLoader, registry_file).L.client_cache # last.registry

\* C14: a call of load_client_map that raises has published nothing: the cache
\* and the three indices are unset afterwards.
C14_FailedLoadPublishesNothing ==
    (last.op = "load_client_map" /\ last.exc # "") => loader = NewLoader

\* the configured thresholds have the "high" entry the matcher reads
HasHigh == "high" \in DOMAIN Thresholds(config)

\* C15: over a registry that has loaded, with whatever number of clients,
\* match_transaction returns a MatchResult and raises nothing.
C15_MatchNeverRaises ==
    (Matched /\ LoadedWhole(loader) /\ HasHigh) => last.result.exc = ""

\* the configuration with every key that is unset given its default
WithDefaults(cfg) ==
    [confidence_thresholds |->
         Some(LET t == Thresholds(cfg)
              IN  [high   |-> IF "high" \in DOMAIN t THEN t.high ELSE DefaultHigh,
                   medium |-> IF "medium" \in DOMAIN t THEN t.medium ELSE DefaultMedium,
                   low    |-> IF "low" \in DOMAIN t THEN t.low ELSE DefaultLow]),
     name_threshold |-> Some(IF cfg.name_threshold.is_none THEN DefaultNameThreshold
                             ELSE cfg.name_threshold.v),
     min_score |-> Some(IF cfg.min_score.is_none THEN DefaultMinScore
                        ELSE cfg.min_score.v)]

\* C16: the matcher behaves as the matcher whose configuration has each unset
\* key set to its default (high 0.85, medium 0.60, low 0.40, name_threshold
\* 0.85, min_score 0.80): match_transaction gives the same outcome.
C16_UnsetKeysTakeDefaults ==
    (Matched /\ LoadedWhole(loader)) =>
        SameResult(last.result,
                   match_transaction(WithDefaults(config), loader, registry_file, last.tx).result)

\* the post-review run has ended: both loops are over
Finished == pr.phase = "done"

\* the result of the direct pass for row n
Direct(n) ==
    DirectResult(config, loader, registry_file,
                 TransactionById(pr.transactions, pr.rows[n].id), pr.rows[n]).result

\* row n was resolved by its own extracted PII
PiiResolved(n) == ~pr.rows[n].matched /\ Direct(n).is_matched

UnresolvedAfterDirect(n) == ~Direct(n).is_matched

\* rows m and n carry the same customer email
SameEmail(m, n) ==
    /\ Truthy(pr.transactions[m].email)
    /\ pr.transactions[m].email = pr.transactions[n].email

\* row t2 has ended with the client and the method of row t1, propagated
PropagatedFrom(t2, t1) ==
    /\ pr.match_results[t2].client_caura_id = Direct(t1).client_caura_id
    /\ pr.match_results[t2].match_method = "email_propagated_from_" \o Direct(t1).match_method
    /\ pr.match_results[t2].confidence_score = PropagatedScore
    /\ pr.match_results[t2].is_matched
    /\ ~pr.match_results[t2].requires_review

\* C17 as the claim states it: whichever PII-resolved row T1 carries the
\* email e, every row T2 with email e that the direct pass left unresolved
\* ends with the client and the method of T1, score 0.90, matched, no review.
C17_PropagationAsClaimed ==
    Finished =>
        \A t1, t2 \in DOMAIN pr.rows :
            (t1 # t2 /\ PiiResolved(t1) /\ SameEmail(t1, t2) /\ UnresolvedAfterDirect(t2))
                => PropagatedFrom(t2, t1)

\* C17: when T1 is the last row, in the order of the sheet, that is resolved
\* by its extracted PII and carries the email e, every row T2 with email e that
\* the direct pass left unresolved ends with the client of T1, the method
\* "email_propagated_from_<method of T1>", score 0.90, matched, no review.
C17_Propagation ==
    Finished =>
        \A t1, t2 \in DOMAIN pr.rows :
            (/\ t1 # t2 /\ PiiResolved(t1) /\ SameEmail(t1, t2) /\ UnresolvedAfterDirect(t2)
             /\ \A t3 \in DOMAIN pr.rows : (t3 > t1 /\ PiiResolved(t3)) => ~SameEmail(t1, t3))
                => PropagatedFrom(t2, t1)

\* two rows resolved to different clients carry the email of an unresolved
\* row, which has taken the client of the later one, found by phone
C17_Witness ==
    /\ Finished
    /\ \E t1, t2, t3 \in DOMAIN pr.rows :
        /\ t3 < t1
        /\ PiiResolved(t1) /\ PiiResolved(t3)
        /\ SameEmail(t1, t2) /\ SameEmail(t1, t3)
        /\ UnresolvedAfterDirect(t2)
        /\ Direct(t1).match_method = "extracted_phone"
        /\ Direct(t3).client_caura_id # Direct(t1).client_caura_id
        /\ PropagatedFrom(t2, t1)

\* the sheet with row i taken out and put at place j
Moved(rows, i, j) ==
    LET rest == SubSeq(rows, 1, i - 1) \o SubSeq(rows, i + 1, Len(rows))
    IN  SubSeq(rest, 1, j - 1) \o <<rows[i]>> \o SubSeq(rest, j, Len(rest))

\* the first loop of main, run to its end on the sheet
WholeFirstPass ==
    FirstPass(config, loader, registry_file,
              [NoRun EXCEPT !.rows = pr.rows, !.transactions = TransactionsOf(pr.rows)],
              Len(pr.rows)).pr

\* C18: while the first loop runs nothing has been propagated; the second loop
\* runs with every direct match computed and with the mappings of the whole
\* sheet; and the result of a row the direct pass left unresolved is the same
\* at whatever place of the sheet the row stands, before or after the resolved
\* rows that share its email.
C18_PropagationAfterDirectPass ==
    /\ pr.phase = "first" =>
           \A n \in DOMAIN pr.match_results : pr.match_results[n] = Direct(n)
    /\ pr.phase \in {"second", "done"} =>
           /\ Len(pr.match_results) = Len(pr.rows)
           /\ pr.email_to_client_map = WholeFirstPass.email_to_client_map
    /\ Finished =>
           \A t2, j \in DOMAIN pr.rows :
               UnresolvedAfterDirect(t2) =>
                   post_review(config, loader, registry_file, Moved(pr.rows, t2, j)).match_results[j]
                       = pr.match_results[t2]

\* an unresolved row stands before the resolved row whose mapping it has taken
C18_Witness ==
    /\ Finished
    /\ \E t1, t2 \in DOMAIN pr.rows :
        /\ t2 < t1
        /\ PiiResolved(t1) /\ SameEmail(t1, t2) /\ UnresolvedAfterDirect(t2)
        /\ PropagatedFrom(t2, t1)

\* a thread is inside _build_indices, or an index has never been assigned
IndicesUnfinished ==
    \/ loader.email_index.is_none
    \/ loader.name_index.is_none
    \/ loader.platform_index.is_none
    \/ \E d \in Callers : callers[d].pc \in BuildingPcs

\* C19: no caller is at the index lookup of find_client_by_email while the
\* registry cache is set and an index is unset or still being built.
C19_NoLookupDuringBuild ==
    \A c \in Callers :
        callers[c].pc = "lookup" => ~(~loader.client_cache.is_none /\ IndicesUnfinished)

\* client n of the registry lists the email, in whatever case
Lists(clients, n, email) ==
    \E k \in DOMAIN clients[n].emails :
        Truthy(clients[n].emails[k]) /\ Lower(clients[n].emails[k]) = Lower(email)

\* the last client, in the order of the registry, that lists the email
LastLister(clients, email) ==
    IF \A n \in DOMAIN clients : ~Lists(clients, n, email) THEN NoClient
    ELSE clients[CHOOSE n \in DOMAIN clients :
                     /\ Lists(clients, n, email)
                     /\ \A m \in DOMAIN clients : m > n => ~Lists(clients, m, email)].caura_id

\* C20: over a registry that has loaded, find_client_by_email returns the last
\* client, in the order of the registry, that lists the email in whatever
\* case, and None when no client lists it.
C20_LastListerWins ==
    (last.op = "find_client_by_email" /\ LoadedWhole(loader)) =>
        /\ last.exc = ""
        /\ last.result = LastLister(loader.client_cache.v, last.email)

\* the same records in the other shape
OtherShape(file) ==
    [shape |-> IF file.shape = "flat" THEN "envelope" ELSE "flat", clients |-> file.clients]

\* no two records of the file have the same id
DistinctIds(file) ==
    \A m, n \in DOMAIN file.clients :
        m # n => file.clients[m].caura_id # file.clients[n].caura_id

\* C21: a load that reads a flat mapping or an envelope of records with
\* different ids ends as the load of the same records in the other shape does,
\* with the same exception if any and the same cache and indices, and a flat
\* mapping is loaded as the mapping it is.
C21_ShapesLoadAlike ==
    (/\ last.op = "load_client_map" /\ last.read
     /\ registry_file.shape \in {"flat", "envelope"} /\ DistinctIds(registry_file)) =>
        /\ last.exc = load_client_map(NewLoader, OtherShape(registry_file)).exc
        /\ loader = load_client_map(NewLoader, OtherShape(registry_file)).L
        /\ registry_file.shape = "flat" =>
               /\ last.exc = build_indices([NewLoader EXCEPT !.client_cache =
                                                Some(registry_file.clients)]).exc
               /\ loader = build_indices([NewLoader EXCEPT !.client_cache =
                                              Some(registry_file.clients)]).L

\* C22: over a registry that has loaded, a transaction with an empty
\* description, on a platform other than paper_receipt, whose identifier and
\* email resolve to no client, makes match_transaction raise nothing and
\* return the no_match result.
C22_EmptyDescriptionFallsThrough ==
    (/\ Matched /\ LoadedWhole(loader)
     /\ last.tx.description = <<>>
     /\ last.tx.platform # "paper_receipt"
     /\ IndexedByIdentifier(last.tx) = NoClient
     /\ IndexedByEmail(last.tx) = NoClient) =>
        /\ last.result.exc = ""
        /\ last.result.match_method = "no_match"

\* the last call returned a paper-receipt result
ReceiptResult == Returned /\ last.result.match_method = "paper_receipt_name_fuzzy"

\* the registry client the last result names
ResultClients ==
    {c \in NamedClients : c.caura_id = last.result.client_caura_id}

\* the suburb of the receipt is present, the name scores at least 0.60, the
\* client has a registry suburb, and the two suburbs are at least 0.80 alike
BoostDue(c) ==
    /\ Truthy(last.tx.client_suburb)
    /\ last.result.match_details.name_score >= SuburbGate
    /\ Truthy(c.location.suburb)
    /\ Pct(fuzz_ratio(Lower(last.tx.client_suburb), Lower(c.location.suburb)))
           >= SuburbSimilarity

\* C23: the score of a paper-receipt result is min(1.0, name_score + boost),
\* where name_score is the similarity of the receipt's name and the client's
\* full name and the boost is 0.15 exactly when the receipt has a suburb, the
\* name score is at least 0.60, and the client has a registry suburb that is
\* at least 0.80 similar, and 0 otherwise; the score never exceeds 1.0 and is
\* never below the name score.
C23_ReceiptScore ==
    ReceiptResult =>
        /\ ResultClients # {}
        /\ \A c \in ResultClients :
              /\ last.result.match_details.name_score
                     = Pct(fuzz_ratio(Lower(last.tx.client_name), Lower(FullName(c))))
              /\ last.result.match_details.suburb_boost
                     = IF BoostDue(c) THEN SuburbBoost ELSE 0
        /\ last.result.confidence_score
               = Min(ExactScore, last.result.match_details.name_score
                                     + last.result.match_details.suburb_boost)
        /\ last.result.score_excess
               = IF last.result.confidence_score = ExactScore THEN 0
                 ELSE SumExcess(last.result.match_details.name_score,
                                last.result.match_details.suburb_boost)
        /\ last.result.confidence_score <= ExactScore
        /\ last.result.confidence_score >= last.result.match_details.name_score
        /\ last.result.match_details.suburb_boost = 0 => last.result.score_excess = 0

\* a receipt whose name is exact and whose suburb earns the boost: the cap acts
C23_Witness ==
    /\ ReceiptResult
    /\ last.result.match_details.suburb_boost = SuburbBoost
    /\ last.result.match_details.name_score + SuburbBoost > ExactScore
    /\ last.result.confidence_score = ExactScore
    /\ \E c \in ResultClients : BoostDue(c)

\* the receipt strategy does not apply to the last transaction
ReceiptSkipped ==
    last.tx.platform # "paper_receipt" \/ ~Truthy(last.tx.client_name)

\* C24: a result has the method "paper_receipt_name_fuzzy" only when the
\* platform is "paper_receipt" and the metadata holds a non-empty client_name;
\* over a loaded registry, for any other platform or without a name, a
\* transaction that identifier and email do not settle gets what the
\* fuzzy-name strategy gives, else what the address strategy gives, else
\* no_match.
C24_ReceiptOnlyForNamedReceipts ==
    /\ ReceiptResult =>
           /\ last.tx.platform = "paper_receipt"
           /\ Truthy(last.tx.client_name)
    /\ (/\ Matched /\ ReceiptSkipped
        /\ ~loader.client_cache.is_none
        /\ StrategyResults[1] = NoResult
        /\ StrategyResults[2] = NoResult) =>
           last.result = OrElse(StrategyResults[4],
                                OrElse(StrategyResults[5], NoMatch(last.tx)))

\* a card payment that carries a client name is matched by its description
C24_Witness ==
    /\ Returned
    /\ last.tx.platform = "stripe"
    /\ Truthy(last.tx.client_name)
    /\ last.result.match_method = "fuzzy_name"
    /\ last.result.match_details.matched_name = Lower(last.tx.client_name)

\* the methods of match_by_extracted_pii, in the order of its strategies
PiiMethods ==
    <<"extracted_email", "extracted_acn", "extracted_phone",
      "extracted_address_fuzzy", "extracted_name_fuzzy">>

\* the five strategies on row n of the sheet, in that order
PiiStrategies(n) ==
    << ExtractedEmail(loader, registry_file, pr.transactions[n], pr.rows[n].pii).result,
       ExtractedAcn(loader, registry_file, pr.transactions[n], pr.rows[n].pii).result,
       ExtractedPhone(loader, registry_file, pr.transactions[n], pr.rows[n].pii).result,
       ExtractedAddress(config, loader, registry_file, pr.transactions[n],
                        pr.rows[n].pii).result,
       ExtractedName(config, loader, registry_file, pr.transactions[n],
                     pr.rows[n].pii).result >>

\* the rows whose result, as it stands, was returned by match_by_extracted_pii
PiiRows ==
    {n \in DOMAIN pr.match_results :
        /\ ~pr.rows[n].matched
        /\ pr.match_results[n].match_method
               \in Range(PiiMethods) \cup {"no_match_post_review"}}

\* the client of the registry with this id
RegistryClients(id) == {c \in Range(loader.client_cache.v) : c.caura_id = id}

\* C25: a result of match_by_extracted_pii with the method of strategy k
\* (order: email, ACN, phone, address, name) is the result of strategy k, and
\* the strategies before k found nothing; a phone result names a client one of
\* whose contact numbers has the digits of the extracted phone, an address
\* result scores at least 0.70, a name result at least 0.75; the result
\* "no_match_post_review" (not matched, review required) comes only when all
\* five strategies found nothing.
C25_ExtractedPiiOrder ==
    \A n \in PiiRows :
        /\ \A k \in DOMAIN PiiMethods :
              pr.match_results[n].match_method = PiiMethods[k] =>
                  /\ pr.match_results[n] = PiiStrategies(n)[k]
                  /\ \A j \in 1..(k - 1) : PiiStrategies(n)[j] = NoResult
        /\ pr.match_results[n].match_method = "extracted_phone" =>
              \E c \in RegistryClients(pr.match_results[n].client_caura_id) :
                  \E m \in DOMAIN c.contact_numbers :
                      DigitsOnly(c.contact_numbers[m]) = DigitsOnly(pr.rows[n].pii.Phone)
        /\ pr.match_results[n].match_method = "extracted_address_fuzzy" =>
              pr.match_results[n].confidence_score >= ExtractedAddressMinScore
        /\ pr.match_results[n].match_method = "extracted_name_fuzzy" =>
              pr.match_results[n].confidence_score >= ExtractedNameThreshold
        /\ pr.match_results[n].match_method = "no_match_post_review" =>
              /\ \A j \in DOMAIN PiiMethods : PiiStrategies(n)[j] = NoResult
              /\ ~pr.match_results[n].is_matched
              /\ pr.match_results[n].requires_review
              /\ pr.match_results[n].confidence_score = NoMatchScore

\* a row whose email names CL1 while its phone names C3 and its name CL2 has
\* the email result, and a row whose ACN names nobody has the address result
C25_Witness ==
    /\ \E n \in PiiRows :
          /\ pr.match_results[n].match_method = "extracted_email"
          /\ pr.match_results[n].client_caura_id = "CL1"
          /\ PiiStrategies(n)[3] # NoResult
          /\ PiiStrategies(n)[3].client_caura_id = "C3"
          /\ PiiStrategies(n)[5] # NoResult
          /\ PiiStrategies(n)[5].client_caura_id = "CL2"
    /\ \E n \in PiiRows :
          /\ Truthy(pr.rows[n].pii.ACN)
          /\ pr.match_results[n].match_method = "extracted_address_fuzzy"

\* what match_transaction gives for tx alone, on the loader as it is
Single(tx) == match_transaction(config, loader, registry_file, tx).result

\* the outcome b of a batch is, transaction by transaction, the outcome of
\* match_transaction on that transaction alone: the list of the single
\* results, or the exception of the first transaction that raises alone
BulkAsSingles(b) ==
    /\ b.exc = "" =>
          /\ Len(b.results) = Len(b.transactions)
          /\ \A i \in DOMAIN b.transactions : b.results[i] = Single(b.transactions[i])
    /\ b.exc # "" =>
          \E i \in DOMAIN b.transactions :
              /\ Single(b.transactions[i]).exc = b.exc
              /\ \A j \in 1..(i - 1) : Single(b.transactions[j]).exc = ""

\* the orders of a batch of n transactions
Orders(n) == {p \in [1..n -> 1..n] : \A i, j \in 1..n : p[i] = p[j] => i = j}

\* the batch b, given in the order p, gives every transaction the result it
\* has in b
BulkInOrder(b, p) ==
    \E again \in {bulk_match_transactions(config, loader, registry_file,
                                          [i \in DOMAIN b.transactions |->
                                               b.transactions[p[i]]])} :
        b.exc = "" =>
            /\ again.exc = ""
            /\ \A i \in DOMAIN b.transactions : again.results[i] = b.results[p[i]]

\* result is also what tx gets when the transaction before was matched first
\* in the same batch and did not raise
SameAfter(before, tx, result) ==
    \E both \in {bulk_match_transactions(config, loader, registry_file, <<before, tx>>)} :
        Single(before).exc = "" =>
            IF result.exc # "" THEN both.exc = result.exc
            ELSE both.exc = "" /\ both.results[2] = result

\* C26: on a loader whose registry is loaded, a call of match_transaction or
\* bulk_match_transactions leaves the loader (the cache and the email, name
\* and platform indices) as it was; the result of match_transaction for a
\* transaction is the result the transaction has in a batch where another
\* transaction is matched before it; and the i-th result of a batch is what
\* match_transaction gives for the i-th transaction alone, in every order of
\* the batch and after any earlier calls.
C26_MatchingReadsOnly ==
    [][ (/\ ~loader.client_cache.is_none
         /\ last'.op \in {"match_transaction", "bulk_match_transactions"}) =>
            /\ loader' = loader
            /\ last'.op = "match_transaction" =>
                   \A before \in BatchTxs : SameAfter(before, last'.tx, last'.result)
            /\ last'.op = "bulk_match_transactions" =>
                   /\ BulkAsSingles(last')
                   /\ \A p \in Orders(Len(last'.transactions)) : BulkInOrder(last', p) ]_vars

\* a batch of two transactions that name the same client, the first by its
\* identifier and the second by its address, on a loaded registry
C26_Witness ==
    /\ Bulk
    /\ last.exc = ""
    /\ ~loader.client_cache.is_none
    /\ Len(last.transactions) = MaxBatch
    /\ last.results[1].match_method = "exact_client_id"
    /\ last.results[MaxBatch].match_method = "address_match"
    /\ last.results[1].client_caura_id = last.results[MaxBatch].client_caura_id
    /\ BulkAsSingles(last)
    /\ \A p \in Orders(MaxBatch) : BulkInOrder(last, p)

(***************************************************************************)
(* The reconciliation report (models/reconciliation_report.py).            *)
(***************************************************************************)
\* sum(1 for r in match_results if <flag of r>), flags being the list of flags
RECURSIVE CountTrue(_)
CountTrue(flags) ==
    IF flags = <<>> THEN 0
    ELSE (IF flags[1] THEN 1 ELSE 0) + CountTrue(Tail(flags))

\* confidence_dist[result.confidence_level] += 1, result by result
RECURSIVE ConfidenceDist(_)
ConfidenceDist(match_results) ==
    IF match_results = <<>> THEN [level \in {"high", "medium", "low"} |-> 0]
    ELSE [ConfidenceDist(SubSeq(match_results, 1, Len(match_results) - 1))
             EXCEPT ![confidence_level(match_results[Len(match_results)])] = @ + 1]

\* A breakdown that records a method without counting it.
CountMethod_resets(method_breakdown, method) ==
    DictSet(method_breakdown, method, 1)

\* method_breakdown[method] = method_breakdown.get(method, 0) + 1
CountMethod(method_breakdown, method) ==
    DictSet(method_breakdown, method, DictGet(method_breakdown, method, 0) + 1)

\* the loop that fills method_breakdown, from {}
RECURSIVE MethodBreakdown(_)
MethodBreakdown(match_results) ==
    IF match_results = <<>> THEN EmptyDict
    ELSE CountMethod(MethodBreakdown(SubSeq(match_results, 1, Len(match_results) - 1)),
                     match_results[Len(match_results)].match_method)

\* matched = sum(1 for r in match_results if r.is_matched)
MatchedCount(match_results) ==
    CountTrue([n \in DOMAIN match_results |-> match_results[n].is_matched])

\* ReconciliationReport.from_match_results: the counts of the report
from_match_results(match_results) ==
    [total_transactions |-> Len(match_results),
     matched_transactions |-> MatchedCount(match_results),
     unmatched_transactions |-> Len(match_results) - MatchedCount(match_results),
     requires_review |->
         CountTrue([n \in DOMAIN match_results |-> match_results[n].requires_review]),
     confidence_distribution |-> ConfidenceDist(match_results),
     match_method_breakdown |-> MethodBreakdown(match_results),
     match_results |-> match_results]

\* a result with this id, method, score and flags
SampleResult(id, method, score, matched, review) ==
    [exc |-> "", transaction_id |-> id,
     client_caura_id |-> IF matched THEN "CL1" ELSE NoClient,
     confidence_score |-> score, score_excess |-> 0,
     match_method |-> method, match_details |-> EmptyDict,
     is_matched |-> matched, requires_review |-> review]

\* results of every band and kind: the bounds 0.85 and 0.60 of the bands and
\* the scores just below them, an exact result, an unmatched one
ResultSamples ==
    { SampleResult("T1", "exact_email", ExactScore, TRUE, FALSE),
      SampleResult("T2", "fuzzy_name", LevelHigh, TRUE, FALSE),
      SampleResult("T3", "fuzzy_name", LevelHigh - 1, TRUE, TRUE),
      SampleResult("T4", "address_match", LevelMedium, TRUE, TRUE),
      SampleResult("T5", "address_match", LevelMedium - 1, TRUE, FALSE),
      SampleResult("T6", "no_match", NoMatchScore, FALSE, TRUE) }

ResultLists == SeqsUpTo(ResultSamples, MaxResults)

\* the specification of the report: a list of results, then its report
ReportInit ==
    /\ registry_file = [shape |-> "flat", clients |-> <<>>]
    /\ config = ConfigDefault
    /\ loader = NewLoader
    /\ \E match_results \in ResultLists :
           last = [op |-> "results", match_results |-> match_results]
    /\ addr_pc = "idle"
    /\ addr_in = <<>>
    /\ addr_once = <<>>
    /\ addr_twice = <<>>
    /\ pr = NoRun
    /\ callers = NoCallers
    /\ importer = NoImport

\* a call of ReconciliationReport.from_match_results(..., match_results, ...)
FromMatchResults ==
    /\ last.op = "results"
    /\ last' = [op |-> "from_match_results",
                report |-> from_match_results(last.match_results)]
    /\ UNCHANGED <<registry_file, config, loader, addr_vars, run_vars>>

ReportNext == FromMatchResults

ReportSpec == ReportInit /\ [][ReportNext]_vars

\* the sum of the counts of a dict of counts
RECURSIVE SumOver(_, _)
SumOver(counts, keys) ==
    IF keys = {} THEN 0
    ELSE LET k == CHOOSE x \in keys : TRUE
         IN  counts[k] + SumOver(counts, keys \ {k})

Reported == last.op = "from_match_results"

\* C27: in the report of any list of results, matched_transactions +
\* unmatched_transactions = total_transactions = the number of results,
\* requires_review <= total_transactions, the high, medium and low counts of
\* confidence_distribution sum to total_transactions, and so do the counts of
\* match_method_breakdown.
C27_ReportCounts ==
    Reported =>
        /\ last.report.total_transactions = Len(last.report.match_results)
        /\ last.report.matched_transactions + last.report.unmatched_transactions
               = last.report.total_transactions
        /\ last.report.matched_transactions >= 0
        /\ last.report.unmatched_transactions >= 0
        /\ last.report.requires_review <= last.report.total_transactions
        /\ DOMAIN last.report.confidence_distribution = {"high", "medium", "low"}
        /\ last.report.confidence_distribution["high"]
             + last.report.confidence_distribution["medium"]
             + last.report.confidence_distribution["low"]
               = last.report.total_transactions
        /\ SumOver(last.report.match_method_breakdown,
                   DOMAIN last.report.match_method_breakdown)
               = last.report.total_transactions

\* a full list in which a method occurs twice, with results of two bands,
\* one of them unmatched
C27_Witness ==
    /\ Reported
    /\ last.report.total_transactions = MaxResults
    /\ "fuzzy_name" \in DOMAIN last.report.match_method_breakdown
    /\ last.report.match_method_breakdown["fuzzy_name"] = 2
    /\ last.report.unmatched_transactions = 1
    /\ last.report.confidence_distribution["medium"] = 1
    /\ last.report.confidence_distribution["low"] = 1
    /\ last.report.requires_review = 2

\* the ids of the clients of the loaded registry
RegistryIds ==
    IF loader.client_cache.is_none THEN {}
    ELSE {c.caura_id : c \in Range(loader.client_cache.v)}

\* C28: in every MatchResult match_transaction returns, is_matched holds
\* exactly when client_caura_id is set and exactly when match_method is not
\* "no_match"; a matched result names a client of the loaded registry and has
\* 0 < confidence_score <= 1.0; an unmatched result has confidence_score 0.0.
C28_ResultWellFormed ==
    Returned =>
        /\ last.result.is_matched <=> last.result.client_caura_id # NoClient
        /\ last.result.is_matched <=> last.result.match_method # "no_match"
        /\ last.result.is_matched =>
              /\ last.result.client_caura_id \in RegistryIds
              /\ last.result.confidence_score > NoMatchScore
              /\ last.result.confidence_score <= ExactScore
        /\ ~last.result.is_matched => last.result.confidence_score = NoMatchScore

\* a result of the address strategy, with a score strictly between 0 and 1
C28_Witness ==
    /\ Returned
    /\ last.result.is_matched
    /\ last.result.match_method = "address_match"
    /\ last.result.client_caura_id \in RegistryIds
    /\ last.result.confidence_score > NoMatchScore
    /\ last.result.confidence_score < ExactScore

\* the email of row n is recorded in the email-to-client mapping
MappedEmail(n) ==
    /\ Truthy(pr.transactions[n].email)
    /\ pr.transactions[n].email \in DOMAIN pr.email_to_client_map

\* C29: when the propagation has ended, a result differs from the result of
\* the direct pass only for a row the direct pass left unmatched whose email
\* is in the mapping; every matched result (a "previously_matched" one too)
\* and every unmatched result without a mapped email is the result of the
\* direct pass; and every entry of the mapping comes from a row that was not
\* matched in the original run and that its extracted PII resolved.
C29_PropagationFrame ==
    Finished =>
        /\ \A n \in DOMAIN pr.rows :
              /\ (Direct(n).is_matched \/ ~MappedEmail(n))
                     => pr.match_results[n] = Direct(n)
              /\ pr.match_results[n] # Direct(n)
                     => (UnresolvedAfterDirect(n) /\ MappedEmail(n))
        /\ \A e \in DOMAIN pr.email_to_client_map :
              /\ pr.email_to_client_map[e].client_id # "PREVIOUSLY_MATCHED"
              /\ \E m \in DOMAIN pr.rows :
                    /\ PiiResolved(m)
                    /\ pr.transactions[m].email = e
                    /\ pr.email_to_client_map[e].client_id = Direct(m).client_caura_id

\* an unresolved row shares its email with a row matched in the original run
\* and keeps the no_match_post_review result of the direct pass
C29_Witness ==
    /\ Finished
    /\ \E m, n \in DOMAIN pr.rows :
          /\ pr.rows[m].matched
          /\ SameEmail(m, n)
          /\ UnresolvedAfterDirect(n)
          /\ ~MappedEmail(n)
          /\ pr.match_results[n].match_method = "no_match_post_review"
          /\ pr.match_results[m].match_method = "previously_matched"

(***************************************************************************)
(* The ShiftCare invoice extraction (importers/shiftcare_importer.py).     *)
(*                                                                         *)
(* importer is [pc, progress_file, page, n, completed_ids, ended_by,       *)
(* at_break]: progress_file is the file logs/shiftcare_<type>_progress.json*)
(* ([exists, readable, last_completed_page, completed_invoice_ids], where   *)
(* readable tells that json.load can read it); page, n (the place in the   *)
(* invoices of the page) and completed_ids are the locals of               *)
(* _async_extract_transactions and _process_single_invoice_page; ended_by  *)
(* tells why the page loop ended and at_break is the progress file as it   *)
(* was when the loop ended.  A step runs from one await to the next: pc    *)
(* names the call the coroutine is waiting for.                            *)
(***************************************************************************)
InvoicesPerPage == 2

\* the ids of the invoices of a page
PageInvoices(page) == ((page - 1) * InvoicesPerPage + 1)..(page * InvoicesPerPage)

\* the id of the n-th invoice of a page
InvoiceAt(page, n) == (page - 1) * InvoicesPerPage + n

\* the progress file _save_progress(page, completed_invoice_ids) writes
SavedProgress(page, completed_invoice_ids) ==
    [exists |-> TRUE, readable |-> TRUE, last_completed_page |-> page,
     completed_invoice_ids |-> completed_invoice_ids]

\* the progress file when open(self.progress_file, 'w') has truncated it and
\* the write has failed: it exists and holds no JSON
TruncatedProgress ==
    [exists |-> TRUE, readable |-> FALSE, last_completed_page |-> 0,
     completed_invoice_ids |-> {}]

\* the progress files a run can find: none, the one a run that ended after
\* page k has left, or one that a run has left truncated
ProgressFiles ==
    {NoProgress, TruncatedProgress} \cup
    { SavedProgress(k, UNION {PageInvoices(q) : q \in 1..k}) : k \in 1..(MaxPages - 1) }

\* ShiftCareImporter._load_progress: the progress of the file, or the
\* default when there is no file or json.load raises
load_progress(progress_file) ==
    IF progress_file.exists /\ progress_file.readable
    THEN [last_completed_page |-> progress_file.last_completed_page,
          completed_invoice_ids |-> progress_file.completed_invoice_ids]
    ELSE [last_completed_page |-> 0, completed_invoice_ids |-> {}]

\* start_page = max(1, last_completed_page + 1) if last_completed_page > 0 else 1
StartPage(progress) ==
    IF progress.last_completed_page > 0 THEN Max(1, progress.last_completed_page + 1) ELSE 1

\* the loop has ended with success False: break, then
\* if self.progress_file.exists(): self.progress_file.unlink(), and return
LoopEnded(imp, reason) ==
    [imp EXCEPT !.pc = "returned", !.ended_by = reason,
                !.at_break = imp.progress_file, !.progress_file = NoProgress]

ImportInit ==
    /\ registry_file = [shape |-> "flat", clients |-> <<>>]
    /\ config = ConfigDefault
    /\ loader = NewLoader
    /\ last = Idle
    /\ addr_pc = "idle"
    /\ addr_in = <<>>
    /\ addr_once = <<>>
    /\ addr_twice = <<>>
    /\ pr = NoRun
    /\ callers = NoCallers
    /\ \E progress_file \in ProgressFiles :
           importer = [NoImport EXCEPT !.progress_file = progress_file]

\* _async_extract_transactions as far as await _get_total_invoice_count():
\* the progress is loaded; page holds start_page
ExtractStart ==
    /\ importer.pc = "idle"
    /\ importer' = [importer EXCEPT
                      !.pc = "count",
                      !.page = StartPage(load_progress(importer.progress_file)),
                      !.completed_ids =
                          load_progress(importer.progress_file).completed_invoice_ids]
    /\ UNCHANGED <<core_vars, addr_vars, pr, callers>>

\* _get_total_invoice_count has returned (it returns 0 when the request
\* fails); page = start_page, and the loop calls
\* _process_single_invoice_page, which awaits _fetch_invoices_page
CountFetched ==
    /\ importer.pc = "count"
    /\ importer' = [importer EXCEPT !.pc = "fetch"]
    /\ UNCHANGED <<core_vars, addr_vars, pr, callers>>

\* the fetch returns a page with invoices: the loop over them starts
PageFetched ==
    /\ importer.pc = "fetch"
    /\ importer.page <= MaxPages
    /\ importer' = [importer EXCEPT !.pc = "invoice", !.n = 1]
    /\ UNCHANGED <<core_vars, addr_vars, pr, callers>>

\* the API answers 200 with no invoices: _process_single_invoice_page
\* returns False
NoMoreInvoices ==
    /\ importer.pc = "fetch"
    /\ importer' = LoopEnded(importer, "no_invoices")
    /\ UNCHANGED <<core_vars, addr_vars, pr, callers>>

\* the API answers with another status, or the request raises:
\* _fetch_invoices_page returns [], {} and _process_single_invoice_page False
FetchFailed ==
    /\ importer.pc = "fetch"
    /\ importer' = LoopEnded(importer, "fetch_failed")
    /\ UNCHANGED <<core_vars, addr_vars, pr, callers>>

\* for invoice in invoices: an invoice that was completed is skipped, another
\* one goes to await _invoice_to_transaction; after the last invoice comes
\* _save_progress
NextInvoice ==
    /\ importer.pc = "invoice"
    /\ importer' = IF importer.n > InvoicesPerPage THEN [importer EXCEPT !.pc = "save"]
                   ELSE IF InvoiceAt(importer.page, importer.n) \in importer.completed_ids
                   THEN [importer EXCEPT !.n = @ + 1]
                   ELSE [importer EXCEPT !.pc = "to_transaction"]
    /\ UNCHANGED <<core_vars, addr_vars, pr, callers>>

\* _invoice_to_transaction has returned: the invoice is stored, and the
\* coroutine awaits _extract_shift_data
TransactionMade ==
    /\ importer.pc = "to_transaction"
    /\ importer' = [importer EXCEPT !.pc = "shift_data"]
    /\ UNCHANGED <<core_vars, addr_vars, pr, callers>>

\* _extract_shift_data has returned: completed_ids.add(invoice_id)
ShiftDataExtracted ==
    /\ importer.pc = "shift_data"
    /\ importer' = [importer EXCEPT
                      !.completed_ids = @ \cup {InvoiceAt(importer.page, importer.n)},
                      !.n = @ + 1,
                      !.pc = "invoice"]
    /\ UNCHANGED <<core_vars, addr_vars, pr, callers>>

\* one of the two calls raises: the except of the invoice prints and goes on
\* with the next invoice, this one not being completed
InvoiceFailed ==
    /\ importer.pc \in {"to_transaction", "shift_data"}
    /\ importer' = [importer EXCEPT !.n = @ + 1, !.pc = "invoice"]
    /\ UNCHANGED <<core_vars, addr_vars, pr, callers>>

\* self._save_progress(page, list(completed_ids)), return True, page += 1
\* and await asyncio.sleep
ProgressSaved ==
    /\ importer.pc = "save"
    /\ importer' = [importer EXCEPT
                      !.progress_file = SavedProgress(importer.page, importer.completed_ids),
                      !.page = @ + 1,
                      !.pc = "sleep"]
    /\ UNCHANGED <<core_vars, addr_vars, pr, callers>>

\* the sleep is over: the loop calls _process_single_invoice_page again
SleepOver ==
    /\ importer.pc = "sleep"
    /\ importer' = [importer EXCEPT !.pc = "fetch"]
    /\ UNCHANGED <<core_vars, addr_vars, pr, callers>>

\* the processing of the page raises outside the try of one invoice (an
\* invoice that is no object at invoice.get('id', ''), which leaves the
\* progress file alone, or _save_progress cannot write): the except of
\* _process_single_invoice_page returns False, completed_ids holding the
\* invoices processed so far.  A _save_progress that raises leaves the file
\* as it was when open() itself fails, and truncated when the write fails
\* after open() has emptied the file
ProcessingFailed ==
    /\ \/ importer.pc = "save"
       \/ importer.pc = "invoice" /\ importer.n <= InvoicesPerPage
    /\ \E left \in (IF importer.pc = "save"
                     THEN {importer.progress_file, TruncatedProgress}
                     ELSE {importer.progress_file}) :
           importer' = LoopEnded([importer EXCEPT !.progress_file = left],
                                 "processing_failed")
    /\ UNCHANGED <<core_vars, addr_vars, pr, callers>>

ImportNext ==
    \/ ExtractStart
    \/ CountFetched
    \/ PageFetched
    \/ NoMoreInvoices
    \/ FetchFailed
    \/ NextInvoice
    \/ TransactionMade
    \/ ShiftDataExtracted
    \/ InvoiceFailed
    \/ ProgressSaved
    \/ SleepOver
    \/ ProcessingFailed

ImportSpec == ImportInit /\ [][ImportNext]_vars

\* C30: when the extraction has returned, the progress file that was there
\* when the page loop ended has been removed only if the loop ended because
\* a page had no invoices; if the loop ended because a page could not be
\* fetched or processed, the progress file is as it was.
C30_ProgressKeptOnFailure ==
    importer.pc = "returned" =>
        /\ (importer.at_break.exists /\ ~importer.progress_file.exists)
               => importer.ended_by = "no_invoices"
        /\ importer.ended_by \in {"fetch_failed", "processing_failed"}
               => importer.progress_file = importer.at_break

====
